---------------------------- MODULE Spec2Model ----------------------------
(***************************************************************************)
(* AutoInventory: the persistence and consistency layer.                   *)
(*                                                                         *)
(*   - the ADC stock ledger and its read-through cache                     *)
(*     (adc/controller.py, adc/repository.py)                              *)
(*   - the material / order controllers (controllers.py) on top of the     *)
(*     store gateway (database.py)                                         *)
(*                                                                         *)
(* The store is the SQLite file: one variable per table.  Every statement  *)
(* the gateway runs (execute_query / execute_update / execute_insert) is   *)
(* its own connection and its own commit, so one statement is one atomic   *)
(* step; execute_transaction is one atomic step for all its statements.    *)
(* Several processes (each with its own ADCController and private cache)   *)
(* share the store.                                                        *)
(*                                                                         *)
(* spec_mg is a REAL column; it is modelled in units of 0.0001 mg, so that *)
(* the controller's tolerance comparison abs(a - b) < 0.001 and the        *)
(* repository's exact comparison spec_mg = ? are different relations.      *)
(***************************************************************************)
EXTENDS Integers, Sequences, FiniteSets, TLC

\* ------------------------------------------------------------- fields ----

\* the names of the columns of the tables and of the fields of the records
\* passed between the layers, in alphabetical order: TLC ranks field names
\* by their first occurrence, and every record below lists its fields in
\* this order
FieldNames ==
    DOMAIN [ adc |-> 0, adc_id |-> 0, adc_inbound |-> 0,
             adc_inbound_items |-> 0, adc_outbound |-> 0,
             adc_outbound_items |-> 0, adc_specs |-> 0, attempt |-> 0,
             columns |-> 0, completed_at |-> 0, conn |-> 0, created_at |-> 0,
             current_database |-> 0, databases |-> 0,
             error |-> 0,
             expected_version |-> 0, header_id |-> 0, held |-> 0, i |-> 0,
             id |-> 0, inbound_id |-> 0, inserted |-> 0, items |-> 0,
             kind |-> 0,
             line |-> 0, lot |-> 0, lot_number |-> 0, material_id |-> 0,
             materials |-> 0, movement_type |-> 0, names |-> 0, ok |-> 0,
             op |-> 0, order_id |-> 0, order_materials |-> 0, orders |-> 0,
             outbound_id |-> 0, outcomes |-> 0, quantity |-> 0,
             reference_id |-> 0, rows |-> 0, schema |-> 0, seq |-> 0,
             spec_id |-> 0, spec_mg |-> 0, specs |-> 0, status |-> 0,
             stock_movements |-> 0, tables |-> 0, type |-> 0, updated_at |-> 0,
             value |-> 0, version |-> 0, waits |-> 0 ]

\* ------------------------------------------------------------- bounds ----

\* movement rows ever inserted: headers (adc_outbound, adc_inbound) and their
\* line items (adc_outbound_items, adc_inbound_items) together
MaxRows == 4

\* sample rows ever inserted into adc (AUTOINCREMENT ids 1..MaxSamples)
MaxSamples == 2

\* spec-lot rows ever inserted into adc_specs (ids 1..MaxSpecLots)
MaxSpecLots == 2

\* order rows ever inserted into orders (ids 1..MaxOrders)
MaxOrders == 1

\* the furthest the store's clock runs
MaxClock == 2

\* controller processes sharing the store file
Procs == {1, 2}

\* lot numbers callers use; only some name a stored sample
Lots == {"LOT-001", "LOT-404"}

\* specification values callers use: 1.0 mg, 1.0004 mg, 2.0 mg
SpecValues == {10000, 10004, 20000}

\* line quantities callers use (the controller accepts any integer)
Quantities == {-1, 2}

\* abs(spec.spec_mg - spec_mg) < 0.001, in units of 0.0001 mg
Tolerance == 10

\* NULL of a nullable column (orders.completed_at, stock_movements.reference_id);
\* the clock starts above it
Null == 0

Lines == [quantity : Quantities, spec_mg : SpecValues]

\* item lists of a movement request: zero, one or two lines
Requests == {<<>>} \cup {<<l>> : l \in Lines} \cup {<<l, m>> : l, m \in Lines}

\* spec lists of a create_adc / update_adc request: none or one spec
SpecLists == {<<>>} \cup {<<l>> : l \in Lines}

\* ids callers pass; 0 is the id of an object that was never saved
SampleIds == 0..MaxSamples
SpecIds == 1..MaxSpecLots

\* materials callers name in order lines
MaterialIds == {1, 2}

\* quantities callers ask of a material in an order line
OrderQuantities == {1, 3}

OrderLines == [material_id : MaterialIds, quantity : OrderQuantities]

\* the materials of an order at its creation: zero, one or two lines
OrderRequests ==
    {<<>>} \cup {<<l>> : l \in OrderLines} \cup {<<l, m>> : l, m \in OrderLines}

\* OrderStatus
OrderStatuses == {"pending", "in_progress", "completed", "cancelled"}

OrderIds == 1..(MaxOrders + 1)

\* ---------------------------------------------------------- variables ----

VARIABLES
    \* -- the store: ADC tables (adc/repository.py init_adc_tables)
    adc,                \* set of rows [id, lot_number]
    adc_specs,          \* set of rows [id, adc_id, spec_mg, quantity]
    adc_outbound,       \* set of rows [id, lot_number]
    adc_outbound_items, \* set of rows [id, outbound_id, spec_mg, quantity]
    adc_inbound,        \* set of rows [id, lot_number]
    adc_inbound_items,  \* set of rows [id, inbound_id, spec_mg, quantity]
    \* -- the store: material and order tables (material/repository.py)
    materials,          \* set of rows [id, quantity]
    orders,             \* set of rows [id, status, completed_at]
    order_materials,    \* set of rows [id, order_id, material_id, quantity]
    stock_movements,    \* set of rows [id, material_id, movement_type,
                        \*              quantity, reference_id]
    now,                \* the store's clock (CURRENT_TIMESTAMP)
    seq,                \* sqlite_sequence: table name -> last AUTOINCREMENT id
    \* -- the DatabaseManager and the store files (database.py)
    db_path,            \* DatabaseManager.db_path: the file the tables above
                        \* are read from and written to
    schema,             \* the tables of that file that init_database may
                        \* create, alter, drop or seed: [tables, columns, rows]
    closed,             \* the other store files: path -> what the file holds
    \* -- the DatabaseManager the threads share
    config,             \* db_config.json: the list of store paths and the
                        \* index of the current one (database.py 18-44)
    lock,               \* DatabaseManager._lock: the thread holding it, or 0
    connections,        \* thread -> the connections it opened and nothing
                        \* has closed yet
    \* -- one ADCController per process
    adc_cache,          \* _adc_cache: adc id -> ADC object
    all_adcs_cache,     \* _all_adcs_cache: list of ADC objects
    cache_initialized,  \* _cache_initialized
    pc,                 \* where the process stands inside its current call
    call,               \* the arguments and locals of the current call (kept
                        \* after it has returned success, until the next call)
    result,             \* what the last call returned (or raised)
    pre                 \* the tables as they were when the current call began

adcTables == <<adc, adc_specs, adc_outbound, adc_outbound_items,
               adc_inbound, adc_inbound_items>>
adcStore == <<adc, adc_specs, adc_outbound, adc_outbound_items,
              adc_inbound, adc_inbound_items, seq>>
cacheVars == <<adc_cache, all_adcs_cache, cache_initialized>>
procVars == <<pc, call, result, pre>>
orderTables == <<materials, orders, order_materials, stock_movements>>
gatewayVars == <<lock, connections, config>>
diskVars == <<db_path, schema, closed, gatewayVars>>
orderVars == <<orderTables, now, diskVars>>
vars == <<adcStore, orderVars, cacheVars, procVars>>

\* ------------------------------------------------------------ helpers ----

Abs(x) == IF x < 0 THEN -x ELSE x

Min(S) == CHOOSE x \in S : \A y \in S : x <= y

RECURSIVE SumQty(_)
SumQty(S) ==
    IF S = {} THEN 0
    ELSE LET r == CHOOSE r \in S : TRUE IN r.quantity + SumQty(S \ {r})

\* SELECT * FROM adc_specs WHERE adc_id = ? ORDER BY spec_mg
\* (rows of equal spec_mg come in rowid order)
RECURSIVE OrderSpecs(_)
OrderSpecs(S) ==
    IF S = {} THEN <<>>
    ELSE LET r == CHOOSE r \in S : \A t \in S :
                      \/ r.spec_mg < t.spec_mg
                      \/ r.spec_mg = t.spec_mg /\ r.id <= t.id
         IN <<r>> \o OrderSpecs(S \ {r})

get_specs_by_adc_id(adc_id) ==
    OrderSpecs({s \in adc_specs : s.adc_id = adc_id})

\* SELECT * FROM adc ORDER BY created_at DESC: created_at never decreases
\* with the id, the newest row comes first
RECURSIVE OrderAdcs(_)
OrderAdcs(S) ==
    IF S = {} THEN <<>>
    ELSE LET r == CHOOSE r \in S : \A t \in S : r.id >= t.id
         IN <<r>> \o OrderAdcs(S \ {r})

get_all_adcs_rows == OrderAdcs(adc)

\* ADC.from_dict(row) with adc.specs loaded
ADCObject(row) ==
    [id |-> row.id, lot_number |-> row.lot_number,
     specs |-> get_specs_by_adc_id(row.id)]

\* ------------------------------------------------ the read-through cache --

\* _refresh_cache: the list it builds (clear, then one append per adc row)
RefreshedList ==
    LET rows == get_all_adcs_rows
    IN [k \in 1..Len(rows) |-> ADCObject(rows[k])]

\* _refresh_cache: the dict it builds (adc.id -> adc)
RefreshedDict ==
    [i \in {r.id : r \in adc} |->
        ADCObject(CHOOSE r \in adc : r.id = i)]

\* a refresh that appends to the list it should have cleared
RefreshWithoutClear(p) ==
    /\ all_adcs_cache' = [all_adcs_cache EXCEPT ![p] = @ \o RefreshedList]
    /\ adc_cache' = [adc_cache EXCEPT ![p] = RefreshedDict]

\* _refresh_cache: clear both, reload both from the store; the initialized
\* flag is not its business
RefreshCache(p) ==
    /\ all_adcs_cache' = [all_adcs_cache EXCEPT ![p] = RefreshedList]
    /\ adc_cache' = [adc_cache EXCEPT ![p] = RefreshedDict]

\* a reader that reloads its cache on every read
AlwaysRefresh(p) ==
    /\ RefreshCache(p)
    /\ cache_initialized' = [cache_initialized EXCEPT ![p] = TRUE]

\* _init_cache: load once, then never again
InitCache(p) ==
    IF cache_initialized[p]
    THEN UNCHANGED cacheVars
    ELSE /\ RefreshCache(p)
         /\ cache_initialized' = [cache_initialized EXCEPT ![p] = TRUE]

\* get_adc_by_lot_number on a cached list: index of the first match, 0 if none
RECURSIVE FirstWithLot(_, _, _)
FirstWithLot(list, lot, k) ==
    IF k > Len(list) THEN 0
    ELSE IF list[k].lot_number = lot THEN k
    ELSE FirstWithLot(list, lot, k + 1)

\* ---------------------------------------------------------- repository --

\* get_spec_by_adc_and_mg: results[0] of the exact match, 0 if none
get_spec_by_adc_and_mg(adc_id, spec_mg) ==
    LET hit == {s \in adc_specs : s.adc_id = adc_id /\ s.spec_mg = spec_mg}
    IN IF hit = {} THEN 0 ELSE Min({s.id : s \in hit})

\* an increment that overwrites: SET quantity = ?
increase_overwrites(spec_id, delta) ==
    {IF s.id = spec_id THEN [s EXCEPT !.quantity = delta] ELSE s
        : s \in adc_specs}

\* UPDATE adc_specs SET quantity = quantity + ? WHERE id = ?
increase_spec_quantity(spec_id, delta) ==
    {IF s.id = spec_id THEN [s EXCEPT !.quantity = s.quantity + delta] ELSE s
        : s \in adc_specs}

\* a decrement without its predicate: SET quantity = quantity - ? WHERE id = ?
decrease_unconditionally(spec_id, delta) ==
    {IF s.id = spec_id THEN [s EXCEPT !.quantity = s.quantity - delta] ELSE s
        : s \in adc_specs}

\* UPDATE adc_specs SET quantity = quantity - ? WHERE id = ? AND quantity >= ?
decrease_spec_quantity(spec_id, delta) ==
    {IF s.id = spec_id /\ s.quantity >= delta
        THEN [s EXCEPT !.quantity = s.quantity - delta] ELSE s
        : s \in adc_specs}

NextId(table) == seq[table] + 1

\* -------------------------------------------------------- call frames ----

IdleCall ==
    [adc_id |-> 0, header_id |-> 0, i |-> 0,
     items |-> <<>>, lot_number |-> "", op |-> "none", spec_id |-> 0]

\* a return value: (True, id) is status "ok" with the new id as value,
\* (False, message) is status "fail" with the kind of message as error and the
\* lot number the message names; an exception is status "raise"
\* a read's result also keeps the id it was asked for
NoResult ==
    [error |-> "none", id |-> 0, lot |-> "", op |-> "none",
     status |-> "none", value |-> 0]

Returned(op, status, error, value) ==
    [error |-> error, id |-> 0, lot |-> "", op |-> op,
     status |-> status, value |-> value]

LotNotFound(op, lot) ==
    [error |-> "LotNotFound", id |-> 0, lot |-> lot, op |-> op,
     status |-> "fail", value |-> 0]

Snapshot ==
    [adc |-> adc, adc_inbound |-> adc_inbound,
     adc_inbound_items |-> adc_inbound_items, adc_outbound |-> adc_outbound,
     adc_outbound_items |-> adc_outbound_items, adc_specs |-> adc_specs,
     materials |-> materials, order_materials |-> order_materials,
     orders |-> orders, seq |-> seq,
     stock_movements |-> stock_movements]

\* calls that have passed their checks and not yet inserted their header
Pending == {q \in Procs : pc[q] \in {"ob_header", "ib_header"}}

\* lines the calls in progress have still to insert
RECURSIVE LinesToCome(_)
LinesToCome(P) ==
    IF P = {} THEN 0
    ELSE LET q == CHOOSE q \in P : TRUE
             n == Len(call[q].items)
             left == IF pc[q] \in {"ob_header", "ib_header"} THEN n
                     ELSE IF pc[q] \in {"ob_item", "ib_item"} THEN n - call[q].i + 1
                     ELSE IF pc[q] \in {"ob_lookup", "ob_decrease", "ib_lookup",
                                        "ib_increase", "ib_add_spec"}
                          THEN n - call[q].i
                     ELSE 0
         IN left + LinesToCome(P \ {q})

\* the bound leaves room for one more movement of n lines
MovesLeft(n) ==
    Cardinality(adc_outbound) + Cardinality(adc_inbound) + Cardinality(Pending)
      + Cardinality(adc_outbound_items) + Cardinality(adc_inbound_items)
      + LinesToCome(Procs) + 1 + n <= MaxRows

\* --------------------------------------------------- create_outbound ----

\* the spec the validation loop finds for a line: index of the first cached
\* spec within the tolerance, 0 if none
RECURSIVE FindSpec(_, _, _)
FindSpec(specs, spec_mg, k) ==
    IF k > Len(specs) THEN 0
    ELSE IF Abs(specs[k].spec_mg - spec_mg) < Tolerance THEN k
    ELSE FindSpec(specs, spec_mg, k + 1)

\* a validation pass that stops after the first line
ValidateFirstLineOnly(specs, items, i) ==
    IF i > Len(items) THEN "none"
    ELSE LET k == FindSpec(specs, items[i].spec_mg, 1)
         IN IF k = 0 THEN "SpecNotFound"
            ELSE IF specs[k].quantity < items[i].quantity
                 THEN "InsufficientStock"
            ELSE "none"

\* the validation pass over all lines: the first error, "none" if all pass
RECURSIVE ValidateOutbound(_, _, _)
ValidateOutbound(specs, items, i) ==
    IF i > Len(items) THEN "none"
    ELSE LET k == FindSpec(specs, items[i].spec_mg, 1)
         IN IF k = 0 THEN "SpecNotFound"
            ELSE IF specs[k].quantity < items[i].quantity
                 THEN "InsufficientStock"
            ELSE ValidateOutbound(specs, items, i + 1)

\* lines 237-262: resolve the sample from the cache, validate every line
OutboundBegin(p, lot, items) ==
    /\ pc[p] = "idle"
    /\ InitCache(p)
    /\ pre' = [pre EXCEPT ![p] = Snapshot]
    /\ UNCHANGED adcStore
    /\ LET list == all_adcs_cache'[p]
           k == FirstWithLot(list, lot, 1)
           err == IF k = 0 THEN "LotNotFound"
                  ELSE ValidateOutbound(list[k].specs, items, 1)
       IN IF err # "none"
          THEN /\ result' = [result EXCEPT ![p] =
                                IF k = 0 THEN LotNotFound("create_outbound", lot)
                                ELSE Returned("create_outbound", "fail", err, 0)]
               /\ call' = [call EXCEPT ![p] = IdleCall]
               /\ UNCHANGED pc
          ELSE /\ MovesLeft(Len(items))
               /\ pc' = [pc EXCEPT ![p] = "ob_header"]
               /\ call' = [call EXCEPT ![p] =
                              [adc_id |-> list[k].id, header_id |-> 0,
                               i |-> 0, items |-> items,
                               lot_number |-> lot, op |-> "create_outbound", spec_id |-> 0]]
               /\ result' = [result EXCEPT ![p] = NoResult]
    /\ UNCHANGED orderVars

\* the line loop: on to the next line, or to the closing refresh
NextLine(p, item_pc, end_pc) ==
    IF call[p].i < Len(call[p].items)
    THEN /\ pc' = [pc EXCEPT ![p] = item_pc]
         /\ call' = [call EXCEPT ![p].i = call[p].i + 1, ![p].spec_id = 0]
    ELSE /\ pc' = [pc EXCEPT ![p] = end_pc]
         /\ call' = [call EXCEPT ![p].spec_id = 0]

\* lines 267-274: repository.create_outbound
OutboundHeader(p) ==
    /\ pc[p] = "ob_header"
    /\ LET id == NextId("adc_outbound")
       IN /\ adc_outbound' = adc_outbound \cup
                {[created_at |-> now, id |-> id,
                  lot_number |-> call[p].lot_number]}
          /\ seq' = [seq EXCEPT !["adc_outbound"] = id]
          /\ IF Len(call[p].items) > 0
             THEN /\ pc' = [pc EXCEPT ![p] = "ob_item"]
                  /\ call' = [call EXCEPT ![p].header_id = id, ![p].i = 1]
             ELSE /\ pc' = [pc EXCEPT ![p] = "ob_refresh"]
                  /\ call' = [call EXCEPT ![p].header_id = id]
    /\ UNCHANGED <<adc, adc_specs, adc_outbound_items, adc_inbound,
                   adc_inbound_items, cacheVars, result, pre>>
    /\ UNCHANGED orderVars

\* line 282: repository.add_outbound_item; the store refuses an item whose
\* header row is gone (FOREIGN KEY (outbound_id), adc/repository.py 78)
OutboundAddItem(p) ==
    /\ pc[p] = "ob_item"
    /\ IF call[p].header_id \in {h.id : h \in adc_outbound}
       THEN LET id == NextId("adc_outbound_items")
                item == call[p].items[call[p].i]
            IN /\ adc_outbound_items' = adc_outbound_items \cup
                     {[id |-> id, outbound_id |-> call[p].header_id,
                       quantity |-> item.quantity, spec_mg |-> item.spec_mg]}
               /\ seq' = [seq EXCEPT !["adc_outbound_items"] = id]
               /\ pc' = [pc EXCEPT ![p] = "ob_lookup"]
               /\ UNCHANGED <<call, result>>
       ELSE /\ result' = [result EXCEPT ![p] =
                             Returned("create_outbound", "raise", "IntegrityError", 0)]
            /\ pc' = [pc EXCEPT ![p] = "idle"]
            /\ call' = [call EXCEPT ![p] = IdleCall]
            /\ UNCHANGED <<adc_outbound_items, seq>>
    /\ UNCHANGED <<adc, adc_specs, adc_outbound, adc_inbound,
                   adc_inbound_items, cacheVars, pre>>
    /\ UNCHANGED orderVars

\* lines 285-286: repository.get_spec_by_adc_and_mg, then "if spec_record"
OutboundLookup(p) ==
    /\ pc[p] = "ob_lookup"
    /\ LET sid == get_spec_by_adc_and_mg(call[p].adc_id,
                                         call[p].items[call[p].i].spec_mg)
       IN IF sid # 0
          THEN /\ pc' = [pc EXCEPT ![p] = "ob_decrease"]
               /\ call' = [call EXCEPT ![p].spec_id = sid]
          ELSE NextLine(p, "ob_item", "ob_refresh")
    /\ UNCHANGED <<adcStore, cacheVars, result, pre>>
    /\ UNCHANGED orderVars

\* line 287: repository.decrease_spec_quantity, its result ignored
OutboundDecrease(p) ==
    /\ pc[p] = "ob_decrease"
    /\ adc_specs' = decrease_spec_quantity(call[p].spec_id,
                                           call[p].items[call[p].i].quantity)
    /\ NextLine(p, "ob_item", "ob_refresh")
    /\ UNCHANGED <<adc, adc_outbound, adc_outbound_items, adc_inbound,
                   adc_inbound_items, seq, cacheVars, result, pre>>
    /\ UNCHANGED orderVars

\* lines 290-292: _refresh_cache, return True, outbound_id
OutboundReturn(p) ==
    /\ pc[p] = "ob_refresh"
    /\ RefreshCache(p)
    /\ UNCHANGED cache_initialized
    /\ result' = [result EXCEPT ![p] =
                     Returned("create_outbound", "ok", "none", call[p].header_id)]
    /\ pc' = [pc EXCEPT ![p] = "idle"]
    /\ UNCHANGED <<adcStore, call, pre>>
    /\ UNCHANGED orderVars

\* ---------------------------------------------------- create_inbound ----

\* lines 324-327: resolve the sample from the cache
InboundBegin(p, lot, items) ==
    /\ pc[p] = "idle"
    /\ InitCache(p)
    /\ pre' = [pre EXCEPT ![p] = Snapshot]
    /\ UNCHANGED adcStore
    /\ LET list == all_adcs_cache'[p]
           k == FirstWithLot(list, lot, 1)
       IN IF k = 0
          THEN /\ result' = [result EXCEPT ![p] =
                                LotNotFound("create_inbound", lot)]
               /\ call' = [call EXCEPT ![p] = IdleCall]
               /\ UNCHANGED pc
          ELSE /\ MovesLeft(Len(items))
               /\ pc' = [pc EXCEPT ![p] = "ib_header"]
               /\ call' = [call EXCEPT ![p] =
                              [adc_id |-> list[k].id, header_id |-> 0,
                               i |-> 0, items |-> items,
                               lot_number |-> lot, op |-> "create_inbound", spec_id |-> 0]]
               /\ result' = [result EXCEPT ![p] = NoResult]
    /\ UNCHANGED orderVars

\* lines 332-339: repository.create_inbound
InboundHeader(p) ==
    /\ pc[p] = "ib_header"
    /\ LET id == NextId("adc_inbound")
       IN /\ adc_inbound' = adc_inbound \cup
                {[created_at |-> now, id |-> id,
                  lot_number |-> call[p].lot_number]}
          /\ seq' = [seq EXCEPT !["adc_inbound"] = id]
          /\ IF Len(call[p].items) > 0
             THEN /\ pc' = [pc EXCEPT ![p] = "ib_item"]
                  /\ call' = [call EXCEPT ![p].header_id = id, ![p].i = 1]
             ELSE /\ pc' = [pc EXCEPT ![p] = "ib_refresh"]
                  /\ call' = [call EXCEPT ![p].header_id = id]
    /\ UNCHANGED <<adc, adc_specs, adc_outbound, adc_outbound_items,
                   adc_inbound_items, cacheVars, result, pre>>
    /\ UNCHANGED orderVars

\* line 347: repository.add_inbound_item; the store refuses an item whose
\* header row is gone (FOREIGN KEY (inbound_id), adc/repository.py 103)
InboundAddItem(p) ==
    /\ pc[p] = "ib_item"
    /\ IF call[p].header_id \in {h.id : h \in adc_inbound}
       THEN LET id == NextId("adc_inbound_items")
                item == call[p].items[call[p].i]
            IN /\ adc_inbound_items' = adc_inbound_items \cup
                     {[id |-> id, inbound_id |-> call[p].header_id,
                       quantity |-> item.quantity, spec_mg |-> item.spec_mg]}
               /\ seq' = [seq EXCEPT !["adc_inbound_items"] = id]
               /\ pc' = [pc EXCEPT ![p] = "ib_lookup"]
               /\ UNCHANGED <<call, result>>
       ELSE /\ result' = [result EXCEPT ![p] =
                             Returned("create_inbound", "raise", "IntegrityError", 0)]
            /\ pc' = [pc EXCEPT ![p] = "idle"]
            /\ call' = [call EXCEPT ![p] = IdleCall]
            /\ UNCHANGED <<adc_inbound_items, seq>>
    /\ UNCHANGED <<adc, adc_specs, adc_outbound, adc_inbound,
                   adc_outbound_items, cacheVars, pre>>
    /\ UNCHANGED orderVars

\* lines 350-351: repository.get_spec_by_adc_and_mg, then "if spec_record"
InboundLookup(p) ==
    /\ pc[p] = "ib_lookup"
    /\ LET sid == get_spec_by_adc_and_mg(call[p].adc_id,
                                         call[p].items[call[p].i].spec_mg)
       IN IF sid # 0
          THEN /\ pc' = [pc EXCEPT ![p] = "ib_increase"]
               /\ call' = [call EXCEPT ![p].spec_id = sid]
          ELSE /\ pc' = [pc EXCEPT ![p] = "ib_add_spec"]
               /\ UNCHANGED call
    /\ UNCHANGED <<adcStore, cacheVars, result, pre>>
    /\ UNCHANGED orderVars

\* line 353: repository.increase_spec_quantity
InboundIncrease(p) ==
    /\ pc[p] = "ib_increase"
    /\ adc_specs' = increase_spec_quantity(call[p].spec_id,
                                           call[p].items[call[p].i].quantity)
    /\ NextLine(p, "ib_item", "ib_refresh")
    /\ UNCHANGED <<adc, adc_outbound, adc_outbound_items, adc_inbound,
                   adc_inbound_items, seq, cacheVars, result, pre>>
    /\ UNCHANGED orderVars

\* line 356: repository.add_spec; the foreign key adc_specs.adc_id -> adc.id
\* is enforced (PRAGMA foreign_keys=ON), a missing parent raises
InboundAddSpec(p) ==
    /\ pc[p] = "ib_add_spec"
    /\ IF call[p].adc_id \in {r.id : r \in adc}
       THEN LET id == NextId("adc_specs")
                item == call[p].items[call[p].i]
            IN /\ adc_specs' = adc_specs \cup
                     {[adc_id |-> call[p].adc_id, id |-> id,
                       quantity |-> item.quantity, spec_mg |-> item.spec_mg]}
               /\ seq' = [seq EXCEPT !["adc_specs"] = id]
               /\ NextLine(p, "ib_item", "ib_refresh")
               /\ UNCHANGED result
       ELSE /\ result' = [result EXCEPT ![p] =
                             Returned("create_inbound", "raise", "IntegrityError", 0)]
            /\ pc' = [pc EXCEPT ![p] = "idle"]
            /\ call' = [call EXCEPT ![p] = IdleCall]
            /\ UNCHANGED <<adc_specs, seq>>
    /\ UNCHANGED <<adc, adc_outbound, adc_outbound_items, adc_inbound,
                   adc_inbound_items, cacheVars, pre>>
    /\ UNCHANGED orderVars

\* lines 359-361: _refresh_cache, return True, inbound_id
InboundReturn(p) ==
    /\ pc[p] = "ib_refresh"
    /\ RefreshCache(p)
    /\ UNCHANGED cache_initialized
    /\ result' = [result EXCEPT ![p] =
                     Returned("create_inbound", "ok", "none", call[p].header_id)]
    /\ pc' = [pc EXCEPT ![p] = "idle"]
    /\ UNCHANGED <<adcStore, call, pre>>
    /\ UNCHANGED orderVars

\* ------------------------------------------- samples and their specs ----

\* a mutating call returns through its closing _refresh_cache
Closing(p, frame) ==
    /\ pc' = [pc EXCEPT ![p] = "crud_refresh"]
    /\ call' = [call EXCEPT ![p] = frame]
    /\ result' = [result EXCEPT ![p] = NoResult]

\* a call ends early with a returned failure or a raised exception
Ends(p, op, status, error) ==
    /\ result' = [result EXCEPT ![p] = Returned(op, status, error, 0)]
    /\ pc' = [pc EXCEPT ![p] = "idle"]
    /\ call' = [call EXCEPT ![p] = IdleCall]

\* the spec loop of create_adc / update_adc: on to the first spec, or to the
\* closing refresh
ToSpecs(p, frame) ==
    /\ pc' = [pc EXCEPT ![p] =
                 IF Len(frame.items) > 0 THEN "spec_line" ELSE "crud_refresh"]
    /\ call' = [call EXCEPT ![p] =
                   [frame EXCEPT !.i = IF Len(frame.items) > 0 THEN 1 ELSE 0]]
    /\ result' = [result EXCEPT ![p] = NoResult]

\* a table adc without the UNIQUE of lot_number
NoUniqueLot(lot, id) == FALSE

\* adc.lot_number is UNIQUE: the INSERT or UPDATE that would give row id the
\* lot number of another row fails
UniqueLotViolated(lot, id) ==
    \E r \in adc : r.lot_number = lot /\ r.id # id

\* create_adc, lines 55-65: repository.create_adc; lot_number is UNIQUE
CreateAdc(p, lot, specs) ==
    /\ pc[p] = "idle"
    /\ seq["adc"] < MaxSamples
    /\ seq["adc_specs"] + Len(specs) <= MaxSpecLots
    /\ pre' = [pre EXCEPT ![p] = Snapshot]
    /\ IF UniqueLotViolated(lot, NextId("adc"))
       THEN /\ Ends(p, "create_adc", "raise", "IntegrityError")
            /\ UNCHANGED <<adc, seq>>
       ELSE LET id == NextId("adc")
            IN /\ adc' = adc \cup {[id |-> id, lot_number |-> lot]}
               /\ seq' = [seq EXCEPT !["adc"] = id]
               /\ ToSpecs(p, [IdleCall EXCEPT !.op = "create_adc",
                                              !.lot_number = lot,
                                              !.items = specs, !.adc_id = id])
    /\ UNCHANGED <<adc_specs, adc_outbound, adc_outbound_items, adc_inbound,
                   adc_inbound_items, cacheVars>>
    /\ UNCHANGED orderVars

\* create_adc lines 68-73, update_adc lines 162-167: repository.add_spec for
\* the next spec of the list
AddSpecLine(p) ==
    /\ pc[p] = "spec_line"
    /\ IF call[p].adc_id \in {r.id : r \in adc}
       THEN LET id == NextId("adc_specs")
                item == call[p].items[call[p].i]
            IN /\ adc_specs' = adc_specs \cup
                     {[adc_id |-> call[p].adc_id, id |-> id,
                       quantity |-> item.quantity, spec_mg |-> item.spec_mg]}
               /\ seq' = [seq EXCEPT !["adc_specs"] = id]
               /\ NextLine(p, "spec_line", "crud_refresh")
               /\ UNCHANGED result
       ELSE /\ Ends(p, call[p].op, "raise", "IntegrityError")
            /\ UNCHANGED <<adc_specs, seq>>
    /\ UNCHANGED <<adc, adc_outbound, adc_outbound_items, adc_inbound,
                   adc_inbound_items, cacheVars, pre>>
    /\ UNCHANGED orderVars

\* update_adc, lines 130-136: the id check and repository.get_adc_by_id
UpdateAdc(p, id, lot, specs) ==
    /\ pc[p] = "idle"
    /\ seq["adc_specs"] + Len(specs) <= MaxSpecLots
    /\ pre' = [pre EXCEPT ![p] = Snapshot]
    /\ IF id = 0
       THEN Ends(p, "update_adc", "fail", "EmptyId")
       ELSE IF id \notin {r.id : r \in adc}
       THEN Ends(p, "update_adc", "fail", "AdcNotFound")
       ELSE /\ pc' = [pc EXCEPT ![p] = "ua_lot_check"]
            /\ call' = [call EXCEPT ![p] =
                           [IdleCall EXCEPT !.op = "update_adc",
                                            !.lot_number = lot,
                                            !.items = specs, !.adc_id = id]]
            /\ result' = [result EXCEPT ![p] = NoResult]
    /\ UNCHANGED <<adcStore, cacheVars>>
    /\ UNCHANGED orderVars

\* update_adc, lines 139-141: repository.get_adc_by_lot_number
UpdateAdcLotCheck(p) ==
    /\ pc[p] = "ua_lot_check"
    /\ IF \E r \in adc : r.lot_number = call[p].lot_number /\ r.id # call[p].adc_id
       THEN Ends(p, "update_adc", "fail", "LotInUse")
       ELSE /\ pc' = [pc EXCEPT ![p] = "ua_update"]
            /\ UNCHANGED <<call, result>>
    /\ UNCHANGED <<adcStore, cacheVars, pre>>
    /\ UNCHANGED orderVars

\* update_adc, lines 144-158: repository.update_adc
UpdateAdcUpdate(p) ==
    /\ pc[p] = "ua_update"
    /\ IF UniqueLotViolated(call[p].lot_number, call[p].adc_id)
       THEN /\ Ends(p, "update_adc", "raise", "IntegrityError")
            /\ UNCHANGED adc
       ELSE IF call[p].adc_id \notin {r.id : r \in adc}
       THEN /\ Ends(p, "update_adc", "fail", "UpdateFailed")
            /\ UNCHANGED adc
       ELSE /\ adc' = {IF r.id = call[p].adc_id
                          THEN [r EXCEPT !.lot_number = call[p].lot_number]
                          ELSE r : r \in adc}
            /\ pc' = [pc EXCEPT ![p] = "ua_delete_specs"]
            /\ UNCHANGED <<call, result>>
    /\ UNCHANGED <<adc_specs, adc_outbound, adc_outbound_items, adc_inbound,
                   adc_inbound_items, seq, cacheVars, pre>>
    /\ UNCHANGED orderVars

\* update_adc, line 161: repository.delete_specs_by_adc_id
UpdateAdcDeleteSpecs(p) ==
    /\ pc[p] = "ua_delete_specs"
    /\ adc_specs' = {s \in adc_specs : s.adc_id # call[p].adc_id}
    /\ ToSpecs(p, call[p])
    /\ UNCHANGED <<adc, adc_outbound, adc_outbound_items, adc_inbound,
                   adc_inbound_items, seq, cacheVars, pre>>
    /\ UNCHANGED orderVars

\* delete_adc, line 176: repository.delete_adc; adc_specs rows go with their
\* sample (ON DELETE CASCADE)
DeleteAdc(p, id) ==
    /\ pc[p] = "idle"
    /\ pre' = [pre EXCEPT ![p] = Snapshot]
    /\ IF id \in {r.id : r \in adc}
       THEN /\ adc' = {r \in adc : r.id # id}
            /\ adc_specs' = {s \in adc_specs : s.adc_id # id}
            /\ Closing(p, [IdleCall EXCEPT !.op = "delete_adc", !.adc_id = id])
       ELSE /\ Ends(p, "delete_adc", "fail", "False")
            /\ UNCHANGED <<adc, adc_specs>>
    /\ UNCHANGED <<adc_outbound, adc_outbound_items, adc_inbound,
                   adc_inbound_items, seq, cacheVars>>
    /\ UNCHANGED orderVars

\* add_spec, line 185: repository.add_spec
AddSpec(p, adc_id, line) ==
    /\ pc[p] = "idle"
    /\ seq["adc_specs"] < MaxSpecLots
    /\ pre' = [pre EXCEPT ![p] = Snapshot]
    /\ IF adc_id \in {r.id : r \in adc}
       THEN LET id == NextId("adc_specs")
            IN /\ adc_specs' = adc_specs \cup
                     {[adc_id |-> adc_id, id |-> id,
                       quantity |-> line.quantity, spec_mg |-> line.spec_mg]}
               /\ seq' = [seq EXCEPT !["adc_specs"] = id]
               /\ Closing(p, [IdleCall EXCEPT !.op = "add_spec",
                                              !.adc_id = adc_id,
                                              !.items = <<line>>,
                                              !.spec_id = id])
       ELSE /\ Ends(p, "add_spec", "raise", "IntegrityError")
            /\ UNCHANGED <<adc_specs, seq>>
    /\ UNCHANGED <<adc, adc_outbound, adc_outbound_items, adc_inbound,
                   adc_inbound_items, cacheVars>>
    /\ UNCHANGED orderVars

\* update_spec, line 191: repository.update_spec
UpdateSpec(p, spec_id, line) ==
    /\ pc[p] = "idle"
    /\ pre' = [pre EXCEPT ![p] = Snapshot]
    /\ IF spec_id \in {s.id : s \in adc_specs}
       THEN /\ adc_specs' = {IF s.id = spec_id
                                THEN [s EXCEPT !.spec_mg = line.spec_mg,
                                               !.quantity = line.quantity]
                                ELSE s : s \in adc_specs}
            /\ Closing(p, [IdleCall EXCEPT !.op = "update_spec",
                                           !.items = <<line>>,
                                           !.spec_id = spec_id])
       ELSE /\ Ends(p, "update_spec", "fail", "False")
            /\ UNCHANGED adc_specs
    /\ UNCHANGED <<adc, adc_outbound, adc_outbound_items, adc_inbound,
                   adc_inbound_items, seq, cacheVars>>
    /\ UNCHANGED orderVars

\* update_spec_quantity, line 198: repository.update_spec_quantity
UpdateSpecQuantity(p, spec_id, quantity) ==
    /\ pc[p] = "idle"
    /\ pre' = [pre EXCEPT ![p] = Snapshot]
    /\ IF spec_id \in {s.id : s \in adc_specs}
       THEN /\ adc_specs' = {IF s.id = spec_id
                                THEN [s EXCEPT !.quantity = quantity]
                                ELSE s : s \in adc_specs}
            /\ Closing(p, [IdleCall EXCEPT !.op = "update_spec_quantity",
                                           !.spec_id = spec_id])
       ELSE /\ Ends(p, "update_spec_quantity", "fail", "False")
            /\ UNCHANGED adc_specs
    /\ UNCHANGED <<adc, adc_outbound, adc_outbound_items, adc_inbound,
                   adc_inbound_items, seq, cacheVars>>
    /\ UNCHANGED orderVars

\* delete_spec, line 205: repository.delete_spec
DeleteSpec(p, spec_id) ==
    /\ pc[p] = "idle"
    /\ pre' = [pre EXCEPT ![p] = Snapshot]
    /\ IF spec_id \in {s.id : s \in adc_specs}
       THEN /\ adc_specs' = {s \in adc_specs : s.id # spec_id}
            /\ Closing(p, [IdleCall EXCEPT !.op = "delete_spec",
                                           !.spec_id = spec_id])
       ELSE /\ Ends(p, "delete_spec", "fail", "False")
            /\ UNCHANGED adc_specs
    /\ UNCHANGED <<adc, adc_outbound, adc_outbound_items, adc_inbound,
                   adc_inbound_items, seq, cacheVars>>
    /\ UNCHANGED orderVars

\* what the call hands back on success: the new id of create_adc / add_spec,
\* True (1) of the others
ReturnValue(frame) ==
    IF frame.op = "create_adc" THEN frame.adc_id
    ELSE IF frame.op = "add_spec" THEN frame.spec_id
    ELSE 1

\* the closing _refresh_cache of a mutating call, and its return
CrudReturn(p) ==
    /\ pc[p] = "crud_refresh"
    /\ RefreshCache(p)
    /\ UNCHANGED cache_initialized
    /\ result' = [result EXCEPT ![p] =
                     Returned(call[p].op, "ok", "none", ReturnValue(call[p]))]
    /\ pc' = [pc EXCEPT ![p] = "idle"]
    /\ UNCHANGED <<adcStore, call, pre>>
    /\ UNCHANGED orderVars

\* ------------------------------------------------------ cached reads ----

\* get_all_adcs: _init_cache, then a copy of the cached list
GetAllAdcs(p) ==
    /\ pc[p] = "idle"
    /\ InitCache(p)
    /\ result' = [result EXCEPT ![p] =
                     Returned("get_all_adcs", "ok", "none", all_adcs_cache'[p])]
    /\ UNCHANGED <<adcStore, pc, call, pre>>
    /\ UNCHANGED orderVars

\* None, in the shape of an ADC object
NoAdc == [id |-> 0, lot_number |-> "", specs |-> <<>>]

\* get_adc: _init_cache, then _adc_cache.get(adc_id)
GetAdc(p, adc_id) ==
    /\ pc[p] = "idle"
    /\ InitCache(p)
    /\ result' = [result EXCEPT ![p] =
                     [Returned("get_adc", "ok", "none",
                               IF adc_id \in DOMAIN adc_cache'[p]
                               THEN adc_cache'[p][adc_id] ELSE NoAdc)
                      EXCEPT !.id = adc_id]]
    /\ UNCHANGED <<adcStore, pc, call, pre>>
    /\ UNCHANGED orderVars

\* ------------------------------------------------------------ orders ----

\* a result that keeps the id the call was about
Outcome(op, status, error, value, id) ==
    [Returned(op, status, error, value) EXCEPT !.id = id]

\* a call of the order controller ends: what it returned or raised
OrderEnds(p, op, status, error, value, id) ==
    /\ result' = [result EXCEPT ![p] = Outcome(op, status, error, value, id)]
    /\ pc' = [pc EXCEPT ![p] = "idle"]
    /\ call' = [call EXCEPT ![p] = IdleCall]

\* create_order, lines 144-154: the INSERT INTO orders; with no material the
\* call returns right after it
CreateOrder(p, status, lines) ==
    /\ pc[p] = "idle"
    /\ seq["orders"] < MaxOrders
    /\ pre' = [pre EXCEPT ![p] = Snapshot]
    /\ LET id == NextId("orders")
       IN /\ orders' = orders \cup
                {[completed_at |-> Null, id |-> id, status |-> status]}
          /\ seq' = [seq EXCEPT !["orders"] = id]
          /\ IF Len(lines) = 0
             THEN OrderEnds(p, "create_order", "ok", "none", id, id)
             ELSE /\ pc' = [pc EXCEPT ![p] = "order_line"]
                  /\ call' = [call EXCEPT ![p] =
                                 [IdleCall EXCEPT !.op = "create_order",
                                                  !.items = lines,
                                                  !.header_id = id, !.i = 1]]
                  /\ result' = [result EXCEPT ![p] = NoResult]
    /\ UNCHANGED <<adcTables, materials, order_materials, stock_movements,
                   now, diskVars, cacheVars>>

\* create_order, lines 157-161: add_material_to_order for the next material;
\* both foreign keys of order_materials are enforced
AddOrderLine(p) ==
    /\ pc[p] = "order_line"
    /\ LET line == call[p].items[call[p].i]
           oid == call[p].header_id
       IN IF \/ oid \notin {o.id : o \in orders}
             \/ line.material_id \notin {m.id : m \in materials}
          THEN /\ OrderEnds(p, "create_order", "raise", "IntegrityError", 0, oid)
               /\ UNCHANGED <<order_materials, seq>>
          ELSE LET id == NextId("order_materials")
               IN /\ order_materials' = order_materials \cup
                        {[id |-> id,
                          material_id |-> line.material_id,
                          order_id |-> oid,
                          quantity |-> line.quantity]}
                  /\ seq' = [seq EXCEPT !["order_materials"] = id]
                  /\ IF call[p].i < Len(call[p].items)
                     THEN /\ call' = [call EXCEPT ![p].i = call[p].i + 1]
                          /\ UNCHANGED <<pc, result>>
                     ELSE OrderEnds(p, "create_order", "ok", "none", oid, oid)
    /\ UNCHANGED <<adcTables, materials, orders, stock_movements, now, diskVars,
                   cacheVars, pre>>

\* update_order, lines 185-201: the status is one of the columns it writes
UpdateOrder(p, id, status) ==
    /\ pc[p] = "idle"
    /\ pre' = [pre EXCEPT ![p] = Snapshot]
    /\ IF id \in {o.id : o \in orders}
       THEN /\ orders' = {IF o.id = id THEN [o EXCEPT !.status = status] ELSE o
                             : o \in orders}
            /\ OrderEnds(p, "update_order", "ok", "none", 1, id)
       ELSE /\ OrderEnds(p, "update_order", "fail", "False", 0, id)
            /\ UNCHANGED orders
    /\ UNCHANGED <<adcStore, materials, order_materials, stock_movements,
                   now, diskVars, cacheVars>>

\* cancel_order, lines 261-269
CancelOrder(p, id) ==
    /\ pc[p] = "idle"
    /\ pre' = [pre EXCEPT ![p] = Snapshot]
    /\ IF id \in {o.id : o \in orders}
       THEN /\ orders' = {IF o.id = id THEN [o EXCEPT !.status = "cancelled"]
                             ELSE o : o \in orders}
            /\ OrderEnds(p, "cancel_order", "ok", "none", 1, id)
       ELSE /\ OrderEnds(p, "cancel_order", "fail", "False", 0, id)
            /\ UNCHANGED orders
    /\ UNCHANGED <<adcStore, materials, order_materials, stock_movements,
                   now, diskVars, cacheVars>>

\* get_order_materials: the lines of the order in rowid order; the JOIN drops
\* a line whose material row is gone
RECURSIVE OrderLinesById(_)
OrderLinesById(S) ==
    IF S = {} THEN <<>>
    ELSE LET r == CHOOSE r \in S : \A t \in S : r.id <= t.id
         IN <<r>> \o OrderLinesById(S \ {r})

get_order_materials(order_id) ==
    OrderLinesById({l \in order_materials :
                       /\ l.order_id = order_id
                       /\ l.material_id \in {m.id : m \in materials}})

\* a class OrderController that had MaterialController's get_material too
MethodsWithGetMaterial ==
    {"__init__", "create_order", "get_order", "get_all_orders", "update_order",
     "complete_order", "cancel_order", "add_material_to_order",
     "remove_material_from_order", "get_order_materials",
     "get_orders_by_status", "_generate_order_number", "get_material"}

\* the methods class OrderController defines
OrderControllerMethods ==
    {"__init__", "create_order", "get_order", "get_all_orders", "update_order",
     "complete_order", "cancel_order", "add_material_to_order",
     "remove_material_from_order", "get_order_materials",
     "get_orders_by_status", "_generate_order_number"}

\* a status check that lets every order through
NoStatusCheck(status) == "none"

\* lines 210-214: the two terminal statuses are refused, each with its message
StatusCheck(status) ==
    IF status = "completed" THEN "OrderCompleted"
    ELSE IF status = "cancelled" THEN "OrderCancelled"
    ELSE "none"

\* a stock check that lets every order through
NoStockCheck(lines, i) ==
    [error |-> "none", names |-> {}]

\* lines 218-227: the stock check loop, from line i on.  Its body calls
\* self.get_material, and the attribute lookup comes first.  The error names
\* the material the loop stopped at.
RECURSIVE CheckStock(_, _)
CheckStock(lines, i) ==
    IF i > Len(lines) THEN [error |-> "none", names |-> {}]
    ELSE IF "get_material" \notin OrderControllerMethods
         THEN [error |-> "AttributeError", names |-> {}]
    ELSE LET found == {m \in materials : m.id = lines[i].material_id}
         IN IF found = {}
            THEN [error |-> "MaterialNotFound", names |-> {lines[i].material_id}]
            ELSE IF \E m \in found : m.quantity < lines[i].quantity
            THEN [error |-> "InsufficientStock", names |-> {lines[i].material_id}]
            ELSE CheckStock(lines, i + 1)

\* complete_order, lines 206-208: get_order's SELECT on orders
CompleteOrder(p, order_id) ==
    /\ pc[p] = "idle"
    /\ pre' = [pre EXCEPT ![p] = Snapshot]
    /\ IF order_id \notin {o.id : o \in orders}
       THEN OrderEnds(p, "complete_order", "fail", "OrderNotFound", {}, order_id)
       ELSE LET o == CHOOSE o \in orders : o.id = order_id
            IN /\ pc' = [pc EXCEPT ![p] = "co_status"]
               /\ call' = [call EXCEPT ![p] =
                              [items |-> <<>>, op |-> "complete_order",
                               order_id |-> order_id, status |-> o.status]]
               /\ result' = [result EXCEPT ![p] = NoResult]
    /\ UNCHANGED <<adcStore, orderVars, cacheVars>>

\* lines 206-214: get_order's get_order_materials, then the status checks on
\* the order that was read
CompleteStatus(p) ==
    /\ pc[p] = "co_status"
    /\ LET err == StatusCheck(call[p].status)
       IN IF err # "none"
          THEN OrderEnds(p, "complete_order", "fail", err, {}, call[p].order_id)
          ELSE /\ pc' = [pc EXCEPT ![p] = "co_materials"]
               /\ UNCHANGED <<call, result>>
    /\ UNCHANGED <<adcStore, orderVars, cacheVars, pre>>

\* lines 217-227: get_order_materials, then the stock check loop
CompleteMaterials(p) ==
    /\ pc[p] = "co_materials"
    /\ LET lines == get_order_materials(call[p].order_id)
           check == CheckStock(lines, 1)
       IN IF check.error = "AttributeError"
          THEN OrderEnds(p, "complete_order", "raise", check.error, check.names,
                         call[p].order_id)
          ELSE IF check.error # "none"
          THEN OrderEnds(p, "complete_order", "fail", check.error, check.names,
                         call[p].order_id)
          ELSE /\ pc' = [pc EXCEPT ![p] = "co_transaction"]
               /\ call' = [call EXCEPT ![p].items = lines]
               /\ UNCHANGED result
    /\ UNCHANGED <<adcStore, orderVars, cacheVars, pre>>

\* UPDATE materials SET quantity = quantity - ? WHERE id = ?, line after line
RECURSIVE DeductLines(_, _, _)
DeductLines(rows, lines, i) ==
    IF i > Len(lines) THEN rows
    ELSE DeductLines({IF m.id = lines[i].material_id
                         THEN [m EXCEPT !.quantity = m.quantity - lines[i].quantity]
                         ELSE m : m \in rows},
                     lines, i + 1)

\* lines 230-259: the operations list handed to execute_transaction, which
\* commits all of it or, when a statement fails, none of it
CompleteTransaction(p) ==
    /\ pc[p] = "co_transaction"
    /\ LET lines == call[p].items
           oid == call[p].order_id
       IN IF \E i \in 1..Len(lines) :
                lines[i].material_id \notin {m.id : m \in materials}
          THEN /\ OrderEnds(p, "complete_order", "fail", "TransactionFailed", {}, oid)
               /\ UNCHANGED <<orders, materials, stock_movements, seq>>
          ELSE /\ orders' = {IF o.id = oid
                                THEN [o EXCEPT !.status = "completed",
                                               !.completed_at = now]
                                ELSE o : o \in orders}
               /\ materials' = DeductLines(materials, lines, 1)
               /\ stock_movements' = stock_movements \cup
                     {[id |-> seq["stock_movements"] + i,
                       material_id |-> lines[i].material_id,
                       movement_type |-> "out",
                       quantity |-> lines[i].quantity,
                       reference_id |-> oid] : i \in 1..Len(lines)}
               /\ seq' = [seq EXCEPT !["stock_movements"] = @ + Len(lines)]
               /\ result' = [result EXCEPT ![p] =
                                Outcome("complete_order", "ok", "none", {}, oid)]
               /\ pc' = [pc EXCEPT ![p] = "idle"]
               /\ UNCHANGED call
    /\ UNCHANGED <<adcTables, order_materials, now, diskVars, cacheVars, pre>>

\* CURRENT_TIMESTAMP moves on
Tick ==
    /\ now < MaxClock
    /\ now' = now + 1
    /\ UNCHANGED <<adcStore, orderTables, diskVars, cacheVars, procVars>>

\* ------------------------------------------------- the ledger, one process

\* a stocked store: one sample, LOT-001, with the spec-lots create_adc gave it
StockedSpecs ==
    { {},
      {[adc_id |-> 1, id |-> 1, quantity |-> 2, spec_mg |-> 10000]},
      {[adc_id |-> 1, id |-> 1, quantity |-> 1, spec_mg |-> 10000],
       [adc_id |-> 1, id |-> 2, quantity |-> 1, spec_mg |-> 20000]} }

\* ------------------------------------------------------ the store files ----

\* the store files the application is pointed at
DbPaths == {"inventory.db", "other.db"}

\* the tables whose creation goes beyond CREATE TABLE IF NOT EXISTS:
\* material_images is migrated, adc_workflow gets columns added, app_user and
\* purification_step_type are seeded
SchemaTables ==
    {"material_images", "app_user", "purification_step_type", "adc_workflow"}

\* the columns that tell an older layout from the current one
ImageColumns == {"image_path", "image_data"}
WorkflowColumns == {"request_sn", "raw_request_json", "purification_flow_string"}

\* the two default users, adc_workflow/repository.py 184-191
SeedUsers == 2

\* len(DEFAULT_STEP_TYPES), adc_workflow/repository.py 28-37
SeedStepTypes == 8

\* a store file as init_database leaves a new one
CurrentSchema ==
    [columns |-> [t \in SchemaTables |->
                     IF t = "material_images" THEN {"image_data"}
                     ELSE IF t = "adc_workflow" THEN WorkflowColumns
                     ELSE {}],
     rows |-> [t \in SchemaTables |->
                  IF t = "app_user" THEN SeedUsers
                  ELSE IF t = "purification_step_type" THEN SeedStepTypes
                  ELSE 0],
     tables |-> SchemaTables]

\* the second store file: one sample, LOT-404, with a spec-lot of 2.0 mg
OtherStore ==
    [adc |-> {[id |-> 1, lot_number |-> "LOT-404"]},
     adc_inbound |-> {},
     adc_inbound_items |-> {}, adc_outbound |-> {},
     adc_outbound_items |-> {}, adc_specs |-> {[adc_id |-> 1, id |-> 1, quantity |-> 1, spec_mg |-> 20000]},
     materials |-> {}, order_materials |-> {}, orders |-> {},
     schema |-> CurrentSchema,
     seq |-> [t \in {"adc", "adc_specs", "adc_outbound", "adc_outbound_items",
                     "adc_inbound", "adc_inbound_items", "materials", "orders",
                     "order_materials", "stock_movements"} |->
                 IF t \in {"adc", "adc_specs"} THEN 1 ELSE 0],
     stock_movements |-> {}]

\* ------------------------------------------- the store configuration ----

\* the files the user may add to the list
ConfigPaths == DbPaths \cup {"third.db", "fourth.db"}

\* the indexes a caller may pass: the positions of the list, and one
\* before and one after it
ConfigIndexes == -1 .. Cardinality(ConfigPaths)

Range(list) == {list[i] : i \in 1 .. Len(list)}

\* the index (from 0, as in the code) of path in the list
IndexOf(list, path) == (CHOOSE i \in 1 .. Len(list) : list[i] = path) - 1

\* list.pop(index), index from 0
Pop(list, index) ==
    [i \in 1 .. Len(list) - 1 |-> IF i <= index THEN list[i] ELSE list[i + 1]]

\* database.py 54-61
get_current_database_path(cfg) ==
    IF /\ cfg.databases # <<>>
       /\ 0 <= cfg.current_database
       /\ cfg.current_database < Len(cfg.databases)
    THEN cfg.databases[cfg.current_database + 1]
    ELSE "inventory.db"

\* database.py 70-81: a path already in the list is refused
add_database(cfg, path) ==
    IF path \in Range(cfg.databases)
    THEN cfg
    ELSE [cfg EXCEPT !.databases = Append(@, path)]

\* database.py 84-96: the entry is popped; the current index is changed only
\* when it has fallen off the end of the list
remove_database(cfg, index) ==
    IF 0 <= index /\ index < Len(cfg.databases) /\ Len(cfg.databases) > 1
    THEN LET databases == Pop(cfg.databases, index)
         IN [current_database |->
                 IF cfg.current_database >= Len(databases)
                 THEN Len(databases) - 1
                 ELSE cfg.current_database,
             databases |-> databases]
    ELSE cfg

\* database.py 99-107
set_current_database(cfg, index) ==
    IF 0 <= index /\ index < Len(cfg.databases)
    THEN [cfg EXCEPT !.current_database = index]
    ELSE cfg

\* database.py 120: the lock is free; no connection is open between calls
InitGateway ==
    /\ lock = 0
    /\ connections = [p \in Procs |-> 0]
    /\ config = [current_database |-> 0,
                 databases |-> <<"inventory.db", "other.db">>]

\* the manager was constructed on inventory.db, which has the current layout
InitDisk ==
    /\ db_path = "inventory.db"
    /\ schema = CurrentSchema
    /\ closed = [f \in DbPaths \ {"inventory.db"} |-> OtherStore]
    /\ InitGateway

\* two materials as create_material left them: the row, and one 'in'
\* movement for the initial quantity; no order yet
InitMaterials ==
    /\ materials = {[id |-> 1, quantity |-> 2, updated_at |-> 1],
                    [id |-> 2, quantity |-> 1, updated_at |-> 1]}
    /\ orders = {}
    /\ order_materials = {}
    /\ stock_movements =
          {[id |-> m.id, material_id |-> m.id, movement_type |-> "in",
            quantity |-> m.quantity, reference_id |-> Null] : m \in materials}
    /\ now = 1
    /\ InitDisk

SeqInit(specs) ==
    [t \in {"adc", "adc_specs", "adc_outbound", "adc_outbound_items",
            "adc_inbound", "adc_inbound_items", "materials", "orders",
            "order_materials", "stock_movements"} |->
        IF t = "adc" THEN 1
        ELSE IF t = "adc_specs" THEN Cardinality(specs)
        ELSE IF t = "materials" THEN Cardinality(materials)
        ELSE IF t = "stock_movements" THEN Cardinality(stock_movements)
        ELSE 0]

ProcInit ==
    /\ adc_cache = [p \in Procs |-> <<>>]
    /\ all_adcs_cache = [p \in Procs |-> <<>>]
    /\ cache_initialized = [p \in Procs |-> FALSE]
    /\ pc = [p \in Procs |-> "idle"]
    /\ call = [p \in Procs |-> IdleCall]
    /\ result = [p \in Procs |-> NoResult]

Init ==
    /\ adc = {[id |-> 1, lot_number |-> "LOT-001"]}
    /\ adc_specs \in StockedSpecs
    /\ adc_outbound = {}
    /\ adc_outbound_items = {}
    /\ adc_inbound = {}
    /\ adc_inbound_items = {}
    /\ InitMaterials
    /\ seq = SeqInit(adc_specs)
    /\ ProcInit
    /\ pre = [p \in Procs |-> Snapshot]

OutboundSteps(p) ==
    \/ OutboundHeader(p)
    \/ OutboundAddItem(p)
    \/ OutboundLookup(p)
    \/ OutboundDecrease(p)
    \/ OutboundReturn(p)

InboundSteps(p) ==
    \/ InboundHeader(p)
    \/ InboundAddItem(p)
    \/ InboundLookup(p)
    \/ InboundIncrease(p)
    \/ InboundAddSpec(p)
    \/ InboundReturn(p)

Next ==
    \/ \E lot \in Lots, items \in Requests : OutboundBegin(1, lot, items)
    \/ \E lot \in Lots, items \in Requests : InboundBegin(1, lot, items)
    \/ OutboundSteps(1)
    \/ InboundSteps(1)
    \/ GetAllAdcs(1)

Spec == Init /\ [][Next]_vars

\* ------------------------------- the cache behind every mutating call ----

\* the lines the calls of this part carry
CacheLines == {[quantity |-> 2, spec_mg |-> 20000]}

CacheSpecLists == {s \in SpecLists : \A i \in 1..Len(s) : s[i] \in CacheLines}

CacheRequests == {r \in Requests : Len(r) = 1 /\ r[1] \in CacheLines}

\* one sample, LOT-001, with one spec-lot of two vials at 1.0 mg
InitCached ==
    /\ Init
    /\ adc_specs = {[adc_id |-> 1, id |-> 1, quantity |-> 2, spec_mg |-> 10000]}

\* one controller on the stocked store: samples and specs are created,
\* changed and deleted, stock moves in and out, and the cached reads follow
NextCache ==
    \/ \E lot \in Lots, specs \in CacheSpecLists : CreateAdc(1, lot, specs)
    \/ \E id \in SampleIds, lot \in Lots, specs \in CacheSpecLists :
          UpdateAdc(1, id, lot, specs)
    \/ UpdateAdcLotCheck(1)
    \/ UpdateAdcUpdate(1)
    \/ UpdateAdcDeleteSpecs(1)
    \/ AddSpecLine(1)
    \/ \E id \in SampleIds : DeleteAdc(1, id)
    \/ \E id \in SampleIds, l \in CacheLines : AddSpec(1, id, l)
    \/ \E sid \in SpecIds, l \in CacheLines : UpdateSpec(1, sid, l)
    \/ \E sid \in SpecIds, q \in Quantities : UpdateSpecQuantity(1, sid, q)
    \/ \E sid \in SpecIds : DeleteSpec(1, sid)
    \/ CrudReturn(1)
    \/ \E lot \in Lots, items \in CacheRequests : OutboundBegin(1, lot, items)
    \/ \E lot \in Lots, items \in CacheRequests : InboundBegin(1, lot, items)
    \/ OutboundSteps(1)
    \/ InboundSteps(1)
    \/ GetAllAdcs(1)
    \/ \E id \in SampleIds : GetAdc(1, id)

SpecCache == InitCached /\ [][NextCache]_vars

\* ------------------------------------- the ledger, two processes racing

\* vials the contended spec-lot holds when the race begins
RaceStock == 2

\* one sample with one spec-lot of 1.0 mg, every controller still to load
\* its cache
InitRace ==
    /\ adc = {[id |-> 1, lot_number |-> "LOT-001"]}
    /\ adc_specs = {[adc_id |-> 1, id |-> 1, quantity |-> RaceStock,
                     spec_mg |-> 10000]}
    /\ adc_outbound = {}
    /\ adc_outbound_items = {}
    /\ adc_inbound = {}
    /\ adc_inbound_items = {}
    /\ InitMaterials
    /\ seq = SeqInit(adc_specs)
    /\ ProcInit
    /\ pre = [p \in Procs |-> Snapshot]

\* requests on the contended spec-lot: lines of 1.0 mg, or of 1.0004 mg which
\* the validation pass takes for the same spec-lot
RaceLines == {l \in Lines : Abs(l.spec_mg - 10000) < Tolerance}

RaceRequests == {r \in Requests : \A i \in 1..Len(r) : r[i] \in RaceLines}

\* create_outbound calls of both processes, interleaved statement by statement
NextRace ==
    \/ \E p \in Procs, lot \in Lots, items \in RaceRequests :
          OutboundBegin(p, lot, items)
    \/ \E p \in Procs : OutboundSteps(p)

SpecRace == InitRace /\ [][NextRace]_vars

\* ------------------------------------------------- orders, one process

\* the statuses a caller creates an order in
OpenStatuses == {"pending", "in_progress"}

\* one order controller on a store of two materials: orders are created,
\* changed, cancelled and completed while the clock runs
NextOrder ==
    \/ \E status \in OpenStatuses, lines \in OrderRequests :
          CreateOrder(1, status, lines)
    \/ AddOrderLine(1)
    \/ \E id \in OrderIds, status \in OrderStatuses : UpdateOrder(1, id, status)
    \/ \E id \in OrderIds : CancelOrder(1, id)
    \/ \E id \in OrderIds : CompleteOrder(1, id)
    \/ CompleteStatus(1)
    \/ CompleteMaterials(1)
    \/ CompleteTransaction(1)
    \/ Tick

InitOrder ==
    /\ Init
    /\ adc_specs = {}

SpecOrder == InitOrder /\ [][NextOrder]_vars

\* ------------------------------------------------- orders, two threads

\* the line items an order of the race was created with
RaceOrderLines ==
    {<<>>, <<[material_id |-> 1, quantity |-> 1]>>}

\* the order_materials rows create_order wrote for order oid, ids from first on
LineRows(oid, lines, first) ==
    {[id |-> first + i - 1,
      material_id |-> lines[i].material_id,
      order_id |-> oid,
      quantity |-> lines[i].quantity] : i \in 1..Len(lines)}

\* two pending orders as create_order left them, on the two materials
InitOrderRace ==
    /\ adc = {[id |-> 1, lot_number |-> "LOT-001"]}
    /\ adc_specs = {}
    /\ adc_outbound = {}
    /\ adc_outbound_items = {}
    /\ adc_inbound = {}
    /\ adc_inbound_items = {}
    /\ materials = {[id |-> 1, quantity |-> 2, updated_at |-> 1],
                    [id |-> 2, quantity |-> 1, updated_at |-> 1]}
    /\ stock_movements =
          {[id |-> m.id, material_id |-> m.id, movement_type |-> "in",
            quantity |-> m.quantity, reference_id |-> Null] : m \in materials}
    /\ now = 1
    /\ InitDisk
    /\ orders = {[completed_at |-> Null, id |-> 1, status |-> "pending"],
                 [completed_at |-> Null, id |-> 2, status |-> "pending"]}
    /\ \E l1 \in RaceOrderLines, l2 \in RaceOrderLines :
          order_materials = LineRows(1, l1, 1) \cup LineRows(2, l2, Len(l1) + 1)
    /\ seq = [SeqInit({}) EXCEPT !["orders"] = 2,
                                 !["order_materials"] = Cardinality(order_materials)]
    /\ ProcInit
    /\ pre = [p \in Procs |-> Snapshot]

\* two threads of one process share the DatabaseManager and call
\* complete_order, each statement of a call one step
NextOrderRace ==
    \/ \E p \in Procs, id \in OrderIds : CompleteOrder(p, id)
    \/ \E p \in Procs : CompleteStatus(p)
    \/ \E p \in Procs : CompleteMaterials(p)
    \/ \E p \in Procs : CompleteTransaction(p)
    \/ Tick

SpecOrderRace == InitOrderRace /\ [][NextOrderRace]_vars

\* ------------------------------------------- execute_transaction, by statement

\* the rows a connection sees: the committed rows and, inside a transaction,
\* its own uncommitted changes
Connection ==
    [materials |-> materials, orders |-> orders, seq |-> seq,
     stock_movements |-> stock_movements]

\* controllers.py, lines 230-253: the operations list of complete_order, the
\* status UPDATE first, then for each line the UPDATE of the material and
\* the INSERT of the movement
RECURSIVE LineOperations(_, _, _)
LineOperations(oid, lines, i) ==
    IF i > Len(lines) THEN <<>>
    ELSE << [kind |-> "deduct",
             material_id |-> lines[i].material_id,
             order_id |-> oid,
             quantity |-> lines[i].quantity],
            [kind |-> "movement",
             material_id |-> lines[i].material_id,
             order_id |-> oid,
             quantity |-> lines[i].quantity] >>
         \o LineOperations(oid, lines, i + 1)

Operations(oid, lines) ==
    << [kind |-> "complete", material_id |-> 0, order_id |-> oid,
        quantity |-> 0] >> \o LineOperations(oid, lines, 1)

\* database.py, line 221: cursor.execute of one statement on the connection.
\* An UPDATE that matches no row changes nothing; the INSERT INTO
\* stock_movements fails on its foreign key when the material is not there.
Execute(conn, st) ==
    IF st.kind = "complete"
    THEN [conn |-> [conn EXCEPT !.orders =
                       {IF o.id = st.order_id
                           THEN [o EXCEPT !.status = "completed",
                                          !.completed_at = now]
                           ELSE o : o \in conn.orders}],
          ok |-> TRUE]
    ELSE IF st.kind = "deduct"
    THEN [conn |-> [conn EXCEPT !.materials =
                       {IF m.id = st.material_id
                           THEN [m EXCEPT !.quantity = m.quantity - st.quantity]
                           ELSE m : m \in conn.materials}],
          ok |-> TRUE]
    ELSE IF st.material_id \notin {m.id : m \in conn.materials}
    THEN [conn |-> conn, ok |-> FALSE]
    ELSE [conn |-> [conn EXCEPT
                       !.stock_movements = @ \cup
                          {[id |-> conn.seq["stock_movements"] + 1,
                            material_id |-> st.material_id,
                            movement_type |-> "out",
                            quantity |-> st.quantity,
                            reference_id |-> st.order_id]},
                       !.seq["stock_movements"] = @ + 1],
          ok |-> TRUE]

\* a connection that committed after every statement, as execute_update does
CommitEachStatement(committed, conn) == conn

\* what the store holds after a statement ran inside the transaction: the
\* change is on the connection, the committed rows are as they were
AfterStatement(committed, conn) == committed

\* the threads inside execute_transaction, holding self._lock
InTransaction == {p \in Procs : pc[p] = "tx_execute"}

\* database.py, lines 214-218: the lock is taken and the connection opened
TransactionBegin(p, ops) ==
    /\ pc[p] = "idle"
    /\ InTransaction = {}
    /\ seq["stock_movements"] < MaxRows
    /\ pre' = [pre EXCEPT ![p] = Snapshot]
    /\ pc' = [pc EXCEPT ![p] = "tx_execute"]
    /\ call' = [call EXCEPT ![p] =
                   [conn |-> Connection, i |-> 1, items |-> ops,
                    op |-> "execute_transaction"]]
    /\ result' = [result EXCEPT ![p] = NoResult]
    /\ UNCHANGED <<adcStore, orderVars, cacheVars>>

\* lines 220-221 and 225-231: the next statement; when it fails the
\* connection is rolled back and closed and the exception goes to the caller
TransactionExecute(p) ==
    /\ pc[p] = "tx_execute"
    /\ call[p].i <= Len(call[p].items)
    /\ LET r == Execute(call[p].conn, call[p].items[call[p].i])
           s == AfterStatement(Connection, r.conn)
       IN IF r.ok
          THEN /\ call' = [call EXCEPT ![p].conn = r.conn, ![p].i = @ + 1]
               /\ orders' = s.orders
               /\ materials' = s.materials
               /\ stock_movements' = s.stock_movements
               /\ seq' = s.seq
               /\ UNCHANGED <<pc, result>>
          ELSE /\ result' = [result EXCEPT ![p] =
                                Outcome("execute_transaction", "raise",
                                        "IntegrityError", 0, 0)]
               /\ pc' = [pc EXCEPT ![p] = "idle"]
               /\ UNCHANGED <<call, orders, materials, stock_movements, seq>>
    /\ UNCHANGED <<adcTables, order_materials, now, diskVars, cacheVars, pre>>

\* lines 223-224: conn.commit() and return True
TransactionCommit(p) ==
    /\ pc[p] = "tx_execute"
    /\ call[p].i > Len(call[p].items)
    /\ orders' = call[p].conn.orders
    /\ materials' = call[p].conn.materials
    /\ stock_movements' = call[p].conn.stock_movements
    /\ seq' = call[p].conn.seq
    /\ result' = [result EXCEPT ![p] =
                     Outcome("execute_transaction", "ok", "none", 1, 0)]
    /\ pc' = [pc EXCEPT ![p] = "idle"]
    /\ UNCHANGED <<adcTables, order_materials, now, diskVars, cacheVars, pre, call>>

\* the line items of the operations lists: material 3 is not in the store
TransactionLines ==
    {<<>>} \cup
    {<<l>> : l \in [material_id : {1, 3}, quantity : {1}]} \cup
    {<<l, k>> : l \in [material_id : {1, 3}, quantity : {1}],
                k \in [material_id : {1, 3}, quantity : {1}]}

\* one thread hands operations lists to execute_transaction, on the store
\* of two pending orders
NextTransaction ==
    \/ \E id \in OrderIds, lines \in TransactionLines :
          TransactionBegin(1, Operations(id, lines))
    \/ TransactionExecute(1)
    \/ TransactionCommit(1)

SpecTransaction == InitOrderRace /\ [][NextTransaction]_vars

\* ---------------------------------------------------------- materials ----

\* the most materials rows the store comes to hold
MaxMaterials == 3

\* ids callers pass to update_material; 0 is the id of a Material never saved
UpdateIds == 0..MaxMaterials

\* the quantity a Material object carries into create_material
CreateQuantities == {0, 2}

\* the quantity an edited Material object carries into update_material
UpdateQuantities == {1, 2}

\* version tokens callers pass: Null for none, or a timestamp read earlier
Versions == 0..MaxClock

\* the methods class DatabaseManager defines
DatabaseManagerMethods ==
    {"__init__", "switch_database", "get_connection", "init_database",
     "execute_query", "execute_update", "execute_insert", "with_connection",
     "execute_transaction"}

\* a call on materials ends; its frame stays for the caller to look at
MaterialEnds(p, op, status, error, value, id) ==
    /\ result' = [result EXCEPT ![p] = Outcome(op, status, error, value, id)]
    /\ pc' = [pc EXCEPT ![p] = "idle"]

\* _record_stock_movement, lines 128-134: the row it inserts
Movement(material_id, movement_type, quantity) ==
    [id |-> NextId("stock_movements"), material_id |-> material_id,
     movement_type |-> movement_type, quantity |-> quantity,
     reference_id |-> Null]

\* create_material, lines 20-34: the INSERT INTO materials; the movement for
\* the initial stock is a second statement, made when the quantity is positive
CreateMaterial(p, quantity) ==
    /\ pc[p] = "idle"
    /\ seq["materials"] < MaxMaterials
    /\ pre' = [pre EXCEPT ![p] = Snapshot]
    /\ LET id == NextId("materials")
       IN /\ materials' = materials \cup
                {[id |-> id, quantity |-> quantity, updated_at |-> now]}
          /\ seq' = [seq EXCEPT !["materials"] = id]
          /\ call' = [call EXCEPT ![p] =
                         [expected_version |-> Null, id |-> id,
                          op |-> "create_material", quantity |-> quantity]]
          /\ IF quantity > 0
             THEN /\ pc' = [pc EXCEPT ![p] = "cm_movement"]
                  /\ result' = [result EXCEPT ![p] = NoResult]
             ELSE MaterialEnds(p, "create_material", "ok", "none", id, id)
    /\ UNCHANGED <<adcTables, orders, order_materials, stock_movements, now, diskVars,
                   cacheVars>>

\* create_material, line 32: _record_stock_movement of the initial stock
CreateMaterialMovement(p) ==
    /\ pc[p] = "cm_movement"
    /\ IF call[p].id \notin {m.id : m \in materials}
       THEN /\ MaterialEnds(p, "create_material", "raise", "IntegrityError",
                            0, call[p].id)
            /\ UNCHANGED <<stock_movements, seq>>
       ELSE /\ stock_movements' = stock_movements \cup
                  {Movement(call[p].id, "in", call[p].quantity)}
            /\ seq' = [seq EXCEPT !["stock_movements"] = @ + 1]
            /\ MaterialEnds(p, "create_material", "ok", "none", call[p].id,
                            call[p].id)
    /\ UNCHANGED <<adcTables, materials, orders, order_materials, now, diskVars,
                   cacheVars, pre, call>>

\* None, in the shape of a row with its version
NoMaterial == [quantity |-> Null, version |-> Null]

\* SELECT *, updated_at as version: the row as the caller gets it
WithVersion(m) == [quantity |-> m.quantity, version |-> m.updated_at]

\* MaterialRepository.get_material_with_version: the row with updated_at as
\* its version, None when there is no such row
GetMaterialWithVersion(p, id) ==
    /\ pc[p] = "idle"
    /\ LET found == {m \in materials : m.id = id}
       IN result' = [result EXCEPT ![p] =
             IF found = {}
             THEN Outcome("get_material_with_version", "ok", "none",
                          NoMaterial, id)
             ELSE Outcome("get_material_with_version", "ok", "none",
                          WithVersion(CHOOSE m \in found : TRUE), id)]
    /\ UNCHANGED <<adcStore, orderVars, cacheVars, pc, call, pre>>

\* update_material, lines 76-95: the UPDATE, conditional on the version when
\* one was given; the rows after it
UpdatedRows(id, quantity, expected_version) ==
    {IF m.id = id /\ (expected_version = Null \/ m.updated_at = expected_version)
        THEN [m EXCEPT !.quantity = quantity, !.updated_at = now]
        ELSE m : m \in materials}

\* update_material, lines 52-103.  Line 56 calls get_material_with_version on
\* self.db, the DatabaseManager, ahead of every statement; what follows it
\* is lines 57-103 taken together.
UpdateMaterial(p, id, quantity, expected_version) ==
    /\ pc[p] = "idle"
    /\ pre' = [pre EXCEPT ![p] = Snapshot]
    /\ call' = [call EXCEPT ![p] =
                   [expected_version |-> expected_version, id |-> id,
                    op |-> "update_material", quantity |-> quantity]]
    /\ LET found == {m \in materials : m.id = id}
           rows == UpdatedRows(id, quantity, expected_version)
       IN IF id = 0
          THEN /\ MaterialEnds(p, "update_material", "fail", "EmptyId", 0, id)
               /\ UNCHANGED <<materials, stock_movements, seq>>
          ELSE IF "get_material_with_version" \notin DatabaseManagerMethods
          THEN /\ MaterialEnds(p, "update_material", "raise",
                               "AttributeError", 0, id)
               /\ UNCHANGED <<materials, stock_movements, seq>>
          ELSE IF found = {}
          THEN /\ MaterialEnds(p, "update_material", "fail", "NotFound", 0, id)
               /\ UNCHANGED <<materials, stock_movements, seq>>
          ELSE IF rows = materials /\ expected_version # Null
          THEN /\ MaterialEnds(p, "update_material", "fail",
                               "VersionConflict", 0, id)
               /\ UNCHANGED <<materials, stock_movements, seq>>
          ELSE LET diff == quantity - (CHOOSE m \in found : TRUE).quantity
               IN /\ materials' = rows
                  /\ IF diff = 0
                     THEN UNCHANGED <<stock_movements, seq>>
                     ELSE /\ stock_movements' = stock_movements \cup
                                {Movement(id, IF diff > 0 THEN "in" ELSE "out",
                                          Abs(diff))}
                          /\ seq' = [seq EXCEPT !["stock_movements"] = @ + 1]
                  /\ MaterialEnds(p, "update_material", "ok", "none", 1, id)
    /\ UNCHANGED <<adcTables, orders, order_materials, now, diskVars, cacheVars>>

\* one material controller on the store of two materials: materials are
\* created, read with their version and edited while the clock runs
NextMaterial ==
    \/ \E quantity \in CreateQuantities : CreateMaterial(1, quantity)
    \/ CreateMaterialMovement(1)
    \/ \E id \in UpdateIds : GetMaterialWithVersion(1, id)
    \/ \E id \in UpdateIds, quantity \in UpdateQuantities,
          version \in Versions : UpdateMaterial(1, id, quantity, version)
    \/ Tick

SpecMaterial == InitOrder /\ [][NextMaterial]_vars

\* ------------------------------------------------ samples, two processes

\* two controllers, each with its cache, create samples and change their
\* lot numbers on the store that holds LOT-001 with one spec-lot
NextLots ==
    \/ \E p \in Procs, lot \in Lots, specs \in CacheSpecLists :
          CreateAdc(p, lot, specs)
    \/ \E p \in Procs, id \in SampleIds, lot \in Lots :
          UpdateAdc(p, id, lot, <<>>)
    \/ \E p \in Procs : UpdateAdcLotCheck(p)
    \/ \E p \in Procs : UpdateAdcUpdate(p)
    \/ \E p \in Procs : UpdateAdcDeleteSpecs(p)
    \/ \E p \in Procs : AddSpecLine(p)
    \/ \E p \in Procs : CrudReturn(p)

SpecLots == InitCached /\ [][NextLots]_vars

\* ------------------------------------------ a statement that fails ----

\* the statements of a movement that come after its header row
AfterHeader ==
    {"ob_item", "ob_lookup", "ob_decrease",
     "ib_item", "ib_lookup", "ib_increase", "ib_add_spec"}

\* database.py 169-196: a gateway statement whose connect or execute raises
\* (sqlite3.OperationalError); nothing is written by it, and neither
\* create_outbound nor create_inbound catches it: the call ends there, the
\* rows committed by its earlier statements stay, the cache is not refreshed
StoreFailure(p) ==
    /\ pc[p] \in AfterHeader
    /\ result' = [result EXCEPT ![p] =
                     Returned(call[p].op, "raise", "OperationalError", 0)]
    /\ pc' = [pc EXCEPT ![p] = "idle"]
    /\ UNCHANGED <<adcStore, cacheVars, call, pre>>
    /\ UNCHANGED orderVars

NextFailure ==
    \/ \E lot \in Lots, items \in Requests : OutboundBegin(1, lot, items)
    \/ \E lot \in Lots, items \in Requests : InboundBegin(1, lot, items)
    \/ OutboundSteps(1)
    \/ InboundSteps(1)
    \/ StoreFailure(1)

SpecFailure == Init /\ [][NextFailure]_vars

\* ------------------------------------------------ deleting parent rows ----

\* a store without the cascade: the rows of the deleted material are kept
KeepRows(rows, material_id) == rows

\* material/repository.py 45-67: FOREIGN KEY (material_id) REFERENCES
\* materials (id) ON DELETE CASCADE, of order_materials and of stock_movements
WithoutMaterial(rows, material_id) ==
    {r \in rows : r.material_id # material_id}

\* MaterialController.delete_material, lines 105-109: one DELETE, committed;
\* True when a row was deleted
DeleteMaterial(p, id) ==
    /\ pc[p] = "idle"
    /\ pre' = [pre EXCEPT ![p] = Snapshot]
    /\ call' = [call EXCEPT ![p] =
                   [expected_version |-> Null, id |-> id,
                    op |-> "delete_material", quantity |-> 0]]
    /\ IF id \in {m.id : m \in materials}
       THEN /\ materials' = {m \in materials : m.id # id}
            /\ order_materials' = WithoutMaterial(order_materials, id)
            /\ stock_movements' = WithoutMaterial(stock_movements, id)
            /\ MaterialEnds(p, "delete_material", "ok", "none", id, id)
       ELSE /\ MaterialEnds(p, "delete_material", "fail", "False", 0, id)
            /\ UNCHANGED <<materials, order_materials, stock_movements>>
    /\ UNCHANGED <<adcStore, orders, now, diskVars, cacheVars>>

\* ADCRepository.delete_inbound, lines 348-352: one DELETE, committed; the
\* items of the record go with it (adc/repository.py 96-104)
DeleteInbound(p, id) ==
    /\ pc[p] = "idle"
    /\ pre' = [pre EXCEPT ![p] = Snapshot]
    /\ IF id \in {r.id : r \in adc_inbound}
       THEN /\ adc_inbound' = {r \in adc_inbound : r.id # id}
            /\ adc_inbound_items' =
                  {r \in adc_inbound_items : r.inbound_id # id}
            /\ Ends(p, "delete_inbound", "ok", "none")
       ELSE /\ Ends(p, "delete_inbound", "fail", "False")
            /\ UNCHANGED <<adc_inbound, adc_inbound_items>>
    /\ UNCHANGED <<adc, adc_specs, adc_outbound, adc_outbound_items, seq,
                   cacheVars>>
    /\ UNCHANGED orderVars

\* inbound records booked while rows are deleted
MaxInbounds == 1

\* the movement requests made while rows are deleted: one line, met by the
\* spec-lot of 1.0 mg or opening one of 2.0 mg
DeleteRequests ==
    {<<[quantity |-> 2, spec_mg |-> v]>> : v \in {10000, 20000}}

\* order lines made while materials are deleted
DeleteOrderRequests ==
    {<<>>} \cup {<<[material_id |-> m, quantity |-> 1]>> : m \in MaterialIds}

\* process 1 books stock in and creates orders; process 2 deletes the samples,
\* inbound records and materials there are, in between its statements
NextDelete ==
    \/ \E items \in DeleteRequests :
          /\ seq["adc_inbound"] < MaxInbounds
          /\ InboundBegin(1, "LOT-001", items)
    \/ InboundSteps(1)
    \/ \E id \in {r.id : r \in adc} : DeleteAdc(2, id)
    \/ CrudReturn(2)
    \/ \E id \in {r.id : r \in adc_inbound} : DeleteInbound(2, id)
    \/ \E lines \in DeleteOrderRequests : CreateOrder(1, "pending", lines)
    \/ AddOrderLine(1)
    \/ \E id \in {m.id : m \in materials} : DeleteMaterial(2, id)

SpecDelete == InitCached /\ [][NextDelete]_vars

\* ------------------------------------------------ schema initialization ----

\* image rows a store file holds before it is initialized
MaxImages == 1

\* CREATE TABLE IF NOT EXISTS: an absent table is created empty, with the
\* columns of the current layout; a present one is left as it is
CreateIfNotExists(s, t) ==
    IF t \in s.tables THEN s
    ELSE [s EXCEPT !.tables = @ \cup {t},
                   !.columns[t] = CurrentSchema.columns[t],
                   !.rows[t] = 0]

\* DROP TABLE IF EXISTS: the table goes with its rows
DropTable(s, t) ==
    [s EXCEPT !.tables = @ \ {t}, !.columns[t] = {}, !.rows[t] = 0]

\* material/repository.py 74-119: a material_images table of the older layout
\* (image_path, no image_data) is dropped, then the table is created if absent
migrate_material_images_table(s) ==
    LET old == /\ "material_images" \in s.tables
               /\ "image_path" \in s.columns["material_images"]
               /\ "image_data" \notin s.columns["material_images"]
    IN CreateIfNotExists(IF old THEN DropTable(s, "material_images") ELSE s,
                         "material_images")

\* INSERT of the seed rows when SELECT COUNT(*) finds the table empty
Seed(s, t, n) ==
    IF s.rows[t] = 0 THEN [s EXCEPT !.rows[t] = n] ELSE s

\* adc_workflow/repository.py 83-201: the tables are created if absent, the
\* columns an older adc_workflow lacks are added, empty app_user and
\* purification_step_type tables are seeded
init_adc_workflow_tables(s) ==
    LET s1 == CreateIfNotExists(CreateIfNotExists(CreateIfNotExists(s,
                  "app_user"), "purification_step_type"), "adc_workflow")
        s2 == [s1 EXCEPT !.columns["adc_workflow"] = @ \cup WorkflowColumns]
    IN Seed(Seed(s2, "app_user", SeedUsers),
            "purification_step_type", SeedStepTypes)

\* database.py 149-167, what init_database does to the tables above: the
\* tables held in the variables are created if absent and never altered
init_database(s) ==
    init_adc_workflow_tables(migrate_material_images_table(s))

\* DatabaseManager.init_database on the open file
InitDatabase ==
    /\ schema' = init_database(schema)
    /\ UNCHANGED <<db_path, closed, gatewayVars, adcStore, orderTables, now,
                   cacheVars, procVars>>

\* the store files init_database may meet: any of the tables absent,
\* material_images and adc_workflow of an older or the current layout, the
\* tables empty or not
Schemas ==
    {[columns |-> [t \in SchemaTables |->
                      IF t \notin T THEN {}
                      ELSE IF t = "material_images" THEN ic
                      ELSE IF t = "adc_workflow" THEN wc
                      ELSE {}],
      rows |-> [t \in SchemaTables |->
                   IF t \notin T THEN 0
                   ELSE IF t = "material_images" THEN images
                   ELSE IF t = "app_user" THEN users
                   ELSE IF t = "purification_step_type" THEN types
                   ELSE 0],
      tables |-> T] :
        T \in SUBSET SchemaTables,
        ic \in (SUBSET ImageColumns) \ {{}},
        wc \in {{}, WorkflowColumns},
        images \in 0..MaxImages,
        users \in {0, SeedUsers},
        types \in {0, SeedStepTypes}}

\* the manager is constructed on a store file of any of these layouts
InitSchema ==
    /\ adc = {[id |-> 1, lot_number |-> "LOT-001"]}
    /\ adc_specs = {}
    /\ adc_outbound = {}
    /\ adc_outbound_items = {}
    /\ adc_inbound = {}
    /\ adc_inbound_items = {}
    /\ materials = {}
    /\ orders = {}
    /\ order_materials = {}
    /\ stock_movements = {}
    /\ now = 1
    /\ InitGateway
    /\ seq = OtherStore.seq
    /\ db_path = "inventory.db"
    /\ schema \in Schemas
    /\ closed = [f \in DbPaths \ {"inventory.db"} |-> OtherStore]
    /\ ProcInit
    /\ pre = [p \in Procs |-> Snapshot]

NextSchema == InitDatabase

SpecSchema == InitSchema /\ [][NextSchema]_vars

\* ---------------------------------------------------- switching the store ----

\* what the open file holds
OpenStore ==
    [adc |-> adc, adc_inbound |-> adc_inbound,
     adc_inbound_items |-> adc_inbound_items, adc_outbound |-> adc_outbound,
     adc_outbound_items |-> adc_outbound_items, adc_specs |-> adc_specs,
     materials |-> materials, order_materials |-> order_materials,
     orders |-> orders, schema |-> schema,
     seq |-> seq, stock_movements |-> stock_movements]

\* the file behind a path
FileAt(path) == IF path = db_path THEN OpenStore ELSE closed[path]

\* a handler that goes on with the controllers it has
SameController(p) == cache_initialized[p]

\* MainWindow._init_controllers, views_pyqt.py 1681-1687: a new ADCController,
\* whose _cache_initialized is False (adc/controller.py 19-24)
NewController(p) == FALSE

\* MainWindow._on_db_changed, views_pyqt.py 3171-3203: switch_database points
\* the manager at the file and runs init_database on it (database.py 125-128),
\* the controllers are built anew, and refresh_data reads get_all_adcs
\* through the controller, which loads its cache if it is not initialized
OnDbChanged(p, path) ==
    /\ pc[p] = "idle"
    /\ pre' = [pre EXCEPT ![p] = Snapshot]
    /\ LET file == FileAt(path)
       IN /\ db_path' = path
          /\ closed' = [f \in DbPaths \ {path} |-> FileAt(f)]
          /\ UNCHANGED <<lock, connections>>
          /\ config' = IF path \in Range(config.databases)
                        THEN set_current_database(config,
                                                  IndexOf(config.databases, path))
                        ELSE config
          /\ schema' = init_database(file.schema)
          /\ adc' = file.adc
          /\ adc_specs' = file.adc_specs
          /\ adc_outbound' = file.adc_outbound
          /\ adc_outbound_items' = file.adc_outbound_items
          /\ adc_inbound' = file.adc_inbound
          /\ adc_inbound_items' = file.adc_inbound_items
          /\ materials' = file.materials
          /\ orders' = file.orders
          /\ order_materials' = file.order_materials
          /\ stock_movements' = file.stock_movements
          /\ seq' = file.seq
    /\ IF NewController(p)
       THEN UNCHANGED cacheVars
       ELSE /\ all_adcs_cache' = [all_adcs_cache EXCEPT ![p] = RefreshedList']
            /\ adc_cache' = [adc_cache EXCEPT ![p] = RefreshedDict']
            /\ cache_initialized' = [cache_initialized EXCEPT ![p] = TRUE]
    /\ call' = [call EXCEPT ![p] = [IdleCall EXCEPT !.op = "on_db_changed"]]
    /\ result' = [result EXCEPT ![p] =
                     Returned("on_db_changed", "ok", "none", all_adcs_cache'[p])]
    /\ pc' = [pc EXCEPT ![p] = "idle"]
    /\ UNCHANGED now

\* a store file written before the workflow tables were introduced
OlderSchema ==
    [CurrentSchema EXCEPT
        !.tables = {"material_images"},
        !.columns = [t \in SchemaTables |->
                        IF t = "material_images" THEN {"image_data"} ELSE {}],
        !.rows = [t \in SchemaTables |-> 0]]

\* the window is open on inventory.db; other.db is of the older layout
InitSwitch ==
    /\ adc = {[id |-> 1, lot_number |-> "LOT-001"]}
    /\ adc_specs = {[adc_id |-> 1, id |-> 1, quantity |-> 2, spec_mg |-> 10000]}
    /\ adc_outbound = {}
    /\ adc_outbound_items = {}
    /\ adc_inbound = {}
    /\ adc_inbound_items = {}
    /\ materials = {}
    /\ orders = {}
    /\ order_materials = {}
    /\ stock_movements = {}
    /\ now = 1
    /\ InitGateway
    /\ seq = OtherStore.seq
    /\ db_path = "inventory.db"
    /\ schema = CurrentSchema
    /\ closed = [f \in DbPaths \ {"inventory.db"} |->
                    [OtherStore EXCEPT !.schema = OlderSchema]]
    /\ ProcInit
    /\ pre = [p \in Procs |-> Snapshot]

\* one window: its handler switches between the files, and between switches
\* samples are read, given spec-lots and deleted through its controller
NextSwitch ==
    \/ \E path \in DbPaths : OnDbChanged(1, path)
    \/ GetAllAdcs(1)
    \/ \E id \in SampleIds : GetAdc(1, id)
    \/ \E id \in SampleIds, l \in CacheLines : AddSpec(1, id, l)
    \/ \E id \in SampleIds : DeleteAdc(1, id)
    \/ CrudReturn(1)

SpecSwitch == InitSwitch /\ [][NextSwitch]_vars

\* ------------------------------------------------------- get_connection ----

\* DatabaseManager.max_retries, database.py 121
max_retries == 3

\* DatabaseManager.retry_delay, database.py 122, in tenths of a second
retry_delay == 1

\* what sqlite3.connect and the PRAGMAs of one attempt may do: succeed, raise
\* OperationalError "database is locked", or raise OperationalError of
\* another kind
ConnectOutcomes == {"connected", "locked", "other"}

\* a retry rule that forgets the attempt count
RetryWhenLocked(error, attempt) == error = "locked"

\* line 144: "database is locked" in str(e) and attempt < self.max_retries - 1
MayRetry(error, attempt) ==
    error = "locked" /\ attempt < max_retries - 1

\* get_connection is entered: for attempt in range(self.max_retries)
GetConnection(p) ==
    /\ pc[p] = "idle"
    /\ pre' = [pre EXCEPT ![p] = Snapshot]
    /\ pc' = [pc EXCEPT ![p] = "gc_connect"]
    /\ call' = [call EXCEPT ![p] =
                   [attempt |-> 0, op |-> "get_connection",
                    outcomes |-> <<>>, waits |-> <<>>]]
    /\ result' = [result EXCEPT ![p] = NoResult]
    /\ UNCHANGED <<adcStore, orderVars, cacheVars>>

\* lines 133-147, one attempt: the connection is returned, or the error is
\* one to wait after, or it is raised to the caller
Connect(p, outcome) ==
    /\ pc[p] = "gc_connect"
    /\ call' = [call EXCEPT ![p].outcomes = Append(@, outcome)]
    /\ IF outcome = "connected"
       THEN /\ result' = [result EXCEPT ![p] =
                             Returned("get_connection", "ok", "none", 1)]
            /\ pc' = [pc EXCEPT ![p] = "idle"]
       ELSE IF MayRetry(outcome, call[p].attempt)
       THEN /\ pc' = [pc EXCEPT ![p] = "gc_sleep"]
            /\ UNCHANGED result
       ELSE /\ result' = [result EXCEPT ![p] =
                             Returned("get_connection", "raise", outcome, 0)]
            /\ pc' = [pc EXCEPT ![p] = "idle"]
    /\ UNCHANGED <<adcStore, orderVars, cacheVars, pre>>

\* lines 145-146: time.sleep(self.retry_delay * (attempt + 1)); continue. A
\* loop that ends without a return makes the method return None
Sleep(p) ==
    /\ pc[p] = "gc_sleep"
    /\ call' = [call EXCEPT
                   ![p].waits = Append(@, retry_delay * (call[p].attempt + 1)),
                   ![p].attempt = @ + 1]
    /\ IF call[p].attempt + 1 < max_retries
       THEN /\ pc' = [pc EXCEPT ![p] = "gc_connect"]
            /\ UNCHANGED result
       ELSE /\ result' = [result EXCEPT ![p] =
                             Returned("get_connection", "ok", "none", Null)]
            /\ pc' = [pc EXCEPT ![p] = "idle"]
    /\ UNCHANGED <<adcStore, orderVars, cacheVars, pre>>

\* two processes open connections on a store that may be locked
NextConnection ==
    \/ \E p \in Procs : GetConnection(p)
    \/ \E p \in Procs, outcome \in ConnectOutcomes : Connect(p, outcome)
    \/ \E p \in Procs : Sleep(p)

SpecConnection == InitOrder /\ [][NextConnection]_vars

\* --------------------------------------------- the versioned UPDATE ----

\* a WHERE clause that does not look at the version
AnyVersion(m, expected_version) == TRUE

\* material/repository.py 139: WHERE id=? AND updated_at=?
VersionMatches(m, expected_version) == m.updated_at = expected_version

\* MaterialRepository.update_material_with_version, lines 134-148: one UPDATE,
\* committed, that sets the row's values and updated_at = CURRENT_TIMESTAMP
\* where the version is the expected one; True when a row was updated. The
\* caller passes the version of the row it holds from its last read.
UpdateMaterialWithVersion(p, quantity) ==
    /\ pc[p] = "idle"
    /\ result[p].op = "get_material_with_version"
    /\ result[p].value # NoMaterial
    /\ pre' = [pre EXCEPT ![p] = Snapshot]
    /\ LET id == result[p].id
           expected_version == result[p].value.version
           hit == {m \in materials :
                      m.id = id /\ VersionMatches(m, expected_version)}
       IN /\ call' = [call EXCEPT ![p] =
                         [expected_version |-> expected_version,
                          held |-> result[p].value, id |-> id,
                          op |-> "update_material_with_version",
                          quantity |-> quantity]]
          /\ materials' = {IF m \in hit
                              THEN [m EXCEPT !.quantity = quantity,
                                             !.updated_at = now]
                              ELSE m : m \in materials}
          /\ IF hit # {}
             THEN MaterialEnds(p, "update_material_with_version", "ok",
                               "none", id, id)
             ELSE MaterialEnds(p, "update_material_with_version", "fail",
                               "False", 0, id)
    /\ UNCHANGED <<adcStore, orders, order_materials, stock_movements, now,
                   diskVars, cacheVars>>

\* two writers on material 1: each reads the row with its version, then
\* updates it with that version, while the clock may or may not advance
NextVersion ==
    \/ \E p \in Procs : GetMaterialWithVersion(p, 1)
    \/ \E p \in Procs, quantity \in UpdateQuantities :
          UpdateMaterialWithVersion(p, quantity)
    \/ Tick

SpecVersion == InitOrder /\ [][NextVersion]_vars

\* ------------------------------------------------------ cached reads ----

\* the cached objects, in list order, whose id is in the given set
RECURSIVE Matching(_, _)
Matching(list, ids) ==
    IF list = <<>> THEN <<>>
    ELSE (IF Head(list).id \in ids THEN <<Head(list)>> ELSE <<>>)
            \o Matching(Tail(list), ids)

\* search_by_sample_id, lines 98-106 (search_by_antibody and
\* search_by_linker_payload, lines 108-126, are the same loop over another
\* attribute): _init_cache, then the objects of _all_adcs_cache whose
\* attribute contains the text. The attribute columns are not among the
\* columns kept of a row; the text is given by the samples it matches.
SearchBySampleId(p, matching) ==
    /\ pc[p] = "idle"
    /\ InitCache(p)
    /\ result' = [result EXCEPT ![p] =
                     Returned("search_by_sample_id", "ok", "none",
                              Matching(all_adcs_cache'[p], matching))]
    /\ pre' = [pre EXCEPT ![p] = Snapshot]
    /\ UNCHANGED <<adcStore, pc, call>>
    /\ UNCHANGED orderVars

\* controller 1 reads while controller 2, in another process, gives samples
\* spec-lots and deletes them
NextReads ==
    \/ GetAllAdcs(1)
    \/ \E id \in SampleIds : GetAdc(1, id)
    \/ \E matching \in SUBSET (1..MaxSamples) : SearchBySampleId(1, matching)
    \/ \E lot \in Lots : CreateAdc(2, lot, <<>>)
    \/ \E id \in SampleIds, l \in CacheLines : AddSpec(2, id, l)
    \/ \E id \in SampleIds : DeleteAdc(2, id)
    \/ CrudReturn(2)

SpecReads == InitCached /\ [][NextReads]_vars

\* ------------------------------------------------- the movement history ----

\* a lot number as the text SQLite and Python see, character by character
Spelling(lot_number) ==
    CASE lot_number = "LOT-001" -> <<"L", "O", "T", "-", "0", "0", "1">>
      [] lot_number = "LOT-404" -> <<"L", "O", "T", "-", "4", "0", "4">>
      [] OTHER -> <<>>

\* texts callers search the history for
SearchStrings ==
    {<<>>, <<"0", "0">>, <<"4">>, <<"T", "-">>, <<"9">>,
     <<"l", "o", "t">>, <<"0", "_", "4">>, <<"%", "1">>}

\* SQLite folds the case of the ASCII letters when LIKE compares
Lower(c) ==
    CASE c = "L" -> "l" [] c = "O" -> "o" [] c = "T" -> "t" [] OTHER -> c

\* text LIKE pattern, from position i of the pattern and j of the text:
\* % matches any run of characters, _ any one character, every other
\* character itself without regard to case
RECURSIVE Like(_, _, _, _)
Like(pattern, text, i, j) ==
    IF i > Len(pattern) THEN j > Len(text)
    ELSE IF pattern[i] = "%"
         THEN \/ Like(pattern, text, i + 1, j)
              \/ j <= Len(text) /\ Like(pattern, text, i, j + 1)
         ELSE /\ j <= Len(text)
              /\ pattern[i] = "_" \/ Lower(pattern[i]) = Lower(text[j])
              /\ Like(pattern, text, i + 1, j + 1)

\* adc/repository.py 297 and 345: WHERE lot_number LIKE ? with the
\* parameter f"%{lot_number}%"
LotNumberLike(rows, searched) ==
    {r \in rows : Like(<<"%">> \o searched \o <<"%">>,
                       Spelling(r.lot_number), 1, 1)}

\* ORDER BY created_at DESC: the rows, newest first; rows of the same second
\* come in an order SQLite does not fix
RECURSIVE NewestFirst(_)
NewestFirst(rows) ==
    IF rows = {} THEN {<<>>}
    ELSE UNION {{<<r>> \o t : t \in NewestFirst(rows \ {r})} :
                   r \in {r \in rows :
                             \A u \in rows : r.created_at >= u.created_at}}

\* the dict get_all_movements appends for a record of one kind (lines
\* 394-402 and 406-414); its items and the free-text columns are left out
Tagged(row, type) ==
    [created_at |-> row.created_at, id |-> row.id,
     lot_number |-> row.lot_number, type |-> type]

RECURSIVE TagAll(_, _)
TagAll(list, type) ==
    IF list = <<>> THEN <<>>
    ELSE <<Tagged(Head(list), type)>> \o TagAll(Tail(list), type)

\* list.sort(key=created_at, reverse=True): a stable sort, the entries of
\* one second keep the order they were appended in
RECURSIVE InsertByTime(_, _)
InsertByTime(sorted, m) ==
    IF sorted = <<>> THEN <<m>>
    ELSE IF Head(sorted).created_at >= m.created_at
         THEN <<Head(sorted)>> \o InsertByTime(Tail(sorted), m)
         ELSE <<m>> \o sorted

RECURSIVE SortByTime(_)
SortByTime(list) ==
    IF list = <<>> THEN <<>>
    ELSE InsertByTime(SortByTime(SubSeq(list, 1, Len(list) - 1)),
                      list[Len(list)])

\* get_all_movements, lines 388-418: the outbound records, then the inbound
\* records, then the sort
GetAllMovements(p) ==
    /\ pc[p] = "idle"
    /\ \E outbounds \in NewestFirst(adc_outbound),
          inbounds \in NewestFirst(adc_inbound) :
          result' = [result EXCEPT ![p] =
                        Returned("get_all_movements", "ok", "none",
                                 SortByTime(TagAll(outbounds, "outbound")
                                            \o TagAll(inbounds, "inbound")))]
    /\ pre' = [pre EXCEPT ![p] = Snapshot]
    /\ UNCHANGED <<adcStore, cacheVars, pc, call>>
    /\ UNCHANGED orderVars

\* search_movements_by_lot_number, lines 420-449: the same over the records
\* the two LIKE queries select
SearchMovementsByLotNumber(p, searched) ==
    /\ pc[p] = "idle"
    /\ \E outbounds \in NewestFirst(LotNumberLike(adc_outbound, searched)),
          inbounds \in NewestFirst(LotNumberLike(adc_inbound, searched)) :
          result' = [result EXCEPT ![p] =
                        Returned("search_movements_by_lot_number", "ok",
                                 "none",
                                 SortByTime(TagAll(outbounds, "outbound")
                                            \o TagAll(inbounds, "inbound")))]
    /\ pre' = [pre EXCEPT ![p] = Snapshot]
    /\ call' = [call EXCEPT ![p] = [IdleCall EXCEPT !.items = searched]]
    /\ UNCHANGED <<adcStore, cacheVars, pc>>
    /\ UNCHANGED orderVars

\* movement records ever in the history, inbound and outbound together
MaxMovements == 2

\* the movements recorded: without lines, or with one line of two vials
OutboundHistoryRequests == {<<>>, <<[quantity |-> 2, spec_mg |-> 10000]>>}

InboundHistoryRequests == {<<>>, <<[quantity |-> 2, spec_mg |-> 20000]>>}

\* one controller records movements of two samples while the clock runs,
\* and reads the history
NextHistory ==
    \/ CreateAdc(1, "LOT-404", <<>>)
    \/ CrudReturn(1)
    \/ /\ seq["adc_outbound"] + seq["adc_inbound"] < MaxMovements
       /\ \E lot \in Lots, items \in OutboundHistoryRequests :
             OutboundBegin(1, lot, items)
    \/ /\ seq["adc_outbound"] + seq["adc_inbound"] < MaxMovements
       /\ \E lot \in Lots, items \in InboundHistoryRequests :
             InboundBegin(1, lot, items)
    \/ OutboundSteps(1)
    \/ InboundSteps(1)
    \/ Tick
    \/ GetAllMovements(1)
    \/ \E searched \in SearchStrings : SearchMovementsByLotNumber(1, searched)

SpecHistory == InitCached /\ [][NextHistory]_vars

\* ------------------------------------------- the Store Gateway primitives ----

\* adc_workflow rows ever inserted
MaxWorkflows == 2

\* connections a thread may have left open when it calls a primitive
MaxLeaked == 1

\* database.py 149-231: the methods that open a connection themselves
Primitives ==
    {"init_database", "execute_query", "execute_update", "execute_insert",
     "with_connection", "execute_transaction"}

\* where an attempt of get_connection fails: in sqlite3.connect (line 133),
\* before there is a connection, or in one of the PRAGMAs (lines 136-141),
\* on the connection just opened
FailurePoints == {"connect", "pragma"}

\* adc_workflow/repository.py 270-291, _do_create: the SELECT of the user
\* ids, the test of the creator id, the INSERT
CreateWorkflowStatements == <<"select", "check_user", "insert">>

\* creator ids callers pass to create_workflow; 3 is no row of app_user
UserIds == {1, 3}

\* the calls made: the primitive, what it is to execute statement by
\* statement, and the creator id where the statements are create_workflow's.
\* "schema" stands for the statements of the three init_*_tables functions,
\* "raise" for a statement the store refuses or code of fn that raises.
GatewayCalls ==
    [id : {0}, items : {<<"schema">>, <<"raise">>}, op : {"init_database"}]
    \cup [id : {0}, items : {<<"select">>, <<"raise">>}, op : {"execute_query"}]
    \cup [id : {0}, items : {<<"insert">>, <<"raise">>},
          op : {"execute_update", "execute_insert"}]
    \cup [id : UserIds, items : {CreateWorkflowStatements},
          op : {"with_connection"}]
    \cup [id : {0}, items : {<<"insert", "insert">>, <<"insert", "raise">>},
          op : {"with_connection", "execute_transaction"}]

\* a with block that does not release the lock when its body raises
KeepLockOnRaise(p, status) == IF status = "raise" THEN lock ELSE 0

\* database.py 214: with self._lock, left by a return or by an exception
ReleaseLock(p, status) == 0

\* the lock after thread p left a primitive: only execute_transaction took it
LockAfter(p, status) ==
    IF call[p].op = "execute_transaction" THEN ReleaseLock(p, status)
    ELSE lock

\* a finally clause that is skipped when the body raised
CloseOnReturn(name, status) == status = "ok"

\* the primitives that close their connection in a finally clause (lines
\* 208-209 and 229-231); the others call conn.close() as their last
\* statement before the return (lines 167, 174, 184, 195)
ClosesConnection(name, status) ==
    \/ name \in {"with_connection", "execute_transaction"}
    \/ status = "ok"

\* the primitives that call conn.commit() (lines 166, 181, 192, 204, 223)
Commits(name) == name # "execute_query"

\* the threads whose connection holds SQLite's write lock: an INSERT was
\* executed on it and neither committed nor rolled back
Writers ==
    {q \in Procs : pc[q] = "gw_run" /\ call[q].inserted > 0}

\* a primitive is called
Primitive(p, c) ==
    /\ pc[p] = "idle"
    /\ connections[p] <= MaxLeaked
    /\ schema.rows["adc_workflow"] < MaxWorkflows
    /\ pc' = [pc EXCEPT ![p] = IF c.op = "execute_transaction"
                                  THEN "gw_lock" ELSE "gw_connect"]
    /\ call' = [call EXCEPT ![p] =
                   [attempt |-> 0, i |-> 1, id |-> c.id, inserted |-> 0,
                    items |-> c.items, op |-> c.op]]
    /\ result' = [result EXCEPT ![p] = NoResult]
    /\ UNCHANGED <<adcStore, orderVars, cacheVars, pre>>

\* line 214: with self._lock, when the lock is free
AcquireLock(p) ==
    /\ pc[p] = "gw_lock"
    /\ lock = 0
    /\ lock' = p
    /\ pc' = [pc EXCEPT ![p] = "gw_connect"]
    /\ UNCHANGED <<adcStore, orderTables, now, db_path, schema, closed, config,
                   connections, cacheVars, call, result, pre>>

\* get_connection, lines 130-147, one attempt for the primitive: the
\* connection is returned, or the error is one to wait after, or it is
\* raised through the primitive. A connection whose PRAGMA failed is closed
\* by no statement.
Attempt(p, outcome, point) ==
    /\ pc[p] = "gw_connect"
    /\ connections' =
          [connections EXCEPT ![p] =
              IF outcome = "connected" \/ point = "pragma" THEN @ + 1 ELSE @]
    /\ IF outcome = "connected"
       THEN /\ pc' = [pc EXCEPT ![p] = "gw_run"]
            /\ UNCHANGED <<lock, result>>
       ELSE IF MayRetry(outcome, call[p].attempt)
       THEN /\ pc' = [pc EXCEPT ![p] = "gw_sleep"]
            /\ UNCHANGED <<lock, result>>
       ELSE /\ pc' = [pc EXCEPT ![p] = "idle"]
            /\ lock' = LockAfter(p, "raise")
            /\ result' = [result EXCEPT ![p] =
                             Returned(call[p].op, "raise", outcome, 0)]
    /\ UNCHANGED <<adcStore, orderTables, now, db_path, schema, closed, config,
                   cacheVars, call, pre>>

\* lines 145-146: time.sleep, then the next attempt
Wait(p) ==
    /\ pc[p] = "gw_sleep"
    /\ pc' = [pc EXCEPT ![p] = "gw_connect"]
    /\ call' = [call EXCEPT ![p].attempt = @ + 1]
    /\ UNCHANGED <<adcStore, orderVars, cacheVars, result, pre>>

\* the statement thread p is to execute next raises: it is "raise", or the
\* creator id is no id of app_user (repository.py 277-278), or it is an
\* INSERT while another connection holds the write lock
Raises(p) ==
    LET st == call[p].items[call[p].i]
    IN \/ st = "raise"
       \/ st = "check_user" /\ call[p].id \notin 1..schema.rows["app_user"]
       \/ st = "insert" /\ Writers \ {p} # {}

\* the primitive leaves with the given status: the connection is closed or
\* not, the lock is released
Leave(p, status, error, value) ==
    /\ pc' = [pc EXCEPT ![p] = "idle"]
    /\ connections' =
          [connections EXCEPT ![p] =
              IF ClosesConnection(call[p].op, status) THEN @ - 1 ELSE @]
    /\ lock' = LockAfter(p, status)
    /\ result' = [result EXCEPT ![p] =
                     Returned(call[p].op, status, error, value)]

\* cursor.execute of the next statement, or the next piece of fn. When it
\* raises, with_connection and execute_transaction roll back (lines 206 and
\* 227) and close; the other primitives have no handler.
Statement(p) ==
    /\ pc[p] = "gw_run"
    /\ call[p].i <= Len(call[p].items)
    /\ IF Raises(p)
       THEN /\ Leave(p, "raise", call[p].items[call[p].i], 0)
            /\ UNCHANGED call
       ELSE /\ call' = [call EXCEPT
                           ![p].i = @ + 1,
                           ![p].inserted =
                               IF call[p].items[call[p].i] = "insert"
                               THEN @ + 1 ELSE @]
            /\ UNCHANGED <<pc, connections, lock, result>>
    /\ UNCHANGED <<adcStore, orderTables, now, db_path, schema, closed, config,
                   cacheVars, pre>>

\* the statements are through: conn.commit() where the primitive has one,
\* conn.close(), and the return; init_database has run the schema statements
Complete(p) ==
    /\ pc[p] = "gw_run"
    /\ call[p].i > Len(call[p].items)
    /\ Leave(p, "ok", "none", call[p].inserted)
    /\ schema' =
          LET s == IF call[p].op = "init_database"
                   THEN init_database(schema) ELSE schema
          IN IF Commits(call[p].op)
             THEN [s EXCEPT !.rows["adc_workflow"] = @ + call[p].inserted]
             ELSE s
    /\ UNCHANGED <<adcStore, orderTables, now, db_path, closed, config, cacheVars,
                   call, pre>>

\* the interpreter frees a connection object nothing refers to any more,
\* which closes it; when it does so the language does not say
Collect(p) ==
    /\ connections[p] > (IF pc[p] = "gw_run" THEN 1 ELSE 0)
    /\ connections' = [connections EXCEPT ![p] = @ - 1]
    /\ UNCHANGED <<adcStore, orderTables, now, db_path, schema, closed, config, lock,
                   cacheVars, procVars>>

\* the steps of thread p inside a primitive, once it is past the lock
PrimitiveSteps(p) ==
    \/ \E outcome \in ConnectOutcomes, point \in FailurePoints :
          Attempt(p, outcome, point)
    \/ Wait(p)
    \/ Statement(p)
    \/ Complete(p)

\* one thread calls the primitives, one call after the other
NextGateway ==
    \/ \E c \in GatewayCalls : Primitive(1, c)
    \/ AcquireLock(1)
    \/ PrimitiveSteps(1)
    \/ Collect(1)

SpecGateway == InitOrder /\ [][NextGateway]_vars

\* two threads call with_connection: create_workflow, and functions that
\* insert two rows or raise after the first
NextWorkflow ==
    \/ \E p \in Procs, c \in GatewayCalls :
          c.op = "with_connection" /\ Primitive(p, c)
    \/ \E p \in Procs : PrimitiveSteps(p)
    \/ \E p \in Procs : Collect(p)

SpecWorkflow == InitOrder /\ [][NextWorkflow]_vars

\* two threads call execute_transaction
NextLock ==
    \/ \E p \in Procs, c \in GatewayCalls :
          c.op = "execute_transaction" /\ Primitive(p, c)
    \/ \E p \in Procs : AcquireLock(p)
    \/ \E p \in Procs : PrimitiveSteps(p)
    \/ \E p \in Procs : Collect(p)

SpecLock == InitOrder /\ [][NextLock]_vars

\* a thread inside a primitive goes on: a connection attempt ends within
\* its timeout, a sleep ends, a statement ends; a thread that finds the
\* lock free time and again gets it
FairLock ==
    /\ \A p \in Procs : WF_vars(PrimitiveSteps(p))
    /\ \A p \in Procs : SF_vars(AcquireLock(p))

SpecLockFair == SpecLock /\ FairLock

\* ------------------------------------- editing the store configuration ----

\* a call of one of the configuration functions: load_config, the change,
\* save_config; the value returned is True (1) when the file was written
ConfigCall(p, op, index, changed) ==
    /\ pc[p] = "idle"
    /\ config' = changed
    /\ result' = [result EXCEPT ![p] =
                    [Returned(op, "ok", "none",
                              IF op = "add_database"
                              THEN IF Len(changed.databases) > Len(config.databases)
                                   THEN 1 ELSE 0
                              ELSE IF 0 <= index /\ index < Len(config.databases)
                                      /\ (op = "remove_database"
                                             => Len(config.databases) > 1)
                                   THEN 1 ELSE 0)
                     EXCEPT !.id = index]]
    /\ UNCHANGED <<adcStore, orderTables, now, db_path, schema, closed, lock,
                   connections, cacheVars, pc, call, pre>>

AddDatabase(p, path) ==
    ConfigCall(p, "add_database", Len(config.databases),
               add_database(config, path))

RemoveDatabase(p, index) ==
    ConfigCall(p, "remove_database", index, remove_database(config, index))

SetCurrentDatabase(p, index) ==
    ConfigCall(p, "set_current_database", index,
               set_current_database(config, index))

NextConfig ==
    \/ \E path \in ConfigPaths : AddDatabase(1, path)
    \/ \E index \in ConfigIndexes : RemoveDatabase(1, index)
    \/ \E index \in ConfigIndexes : SetCurrentDatabase(1, index)

SpecConfig == InitOrder /\ [][NextConfig]_vars

\* ----------------------------------------- the stock of the materials ----

\* orders on one material: no line, one line, or two lines for it
StockRequests ==
    {r \in OrderRequests : \A i \in 1..Len(r) : r[i].material_id = 2}

\* thread 1 creates materials and orders on material 2, and both threads
\* complete the orders, statement by statement
NextStock ==
    \/ \E quantity \in CreateQuantities : CreateMaterial(1, quantity)
    \/ CreateMaterialMovement(1)
    \/ \E lines \in StockRequests : CreateOrder(1, "pending", lines)
    \/ AddOrderLine(1)
    \/ \E p \in Procs, id \in OrderIds : CompleteOrder(p, id)
    \/ \E p \in Procs : CompleteStatus(p)
    \/ \E p \in Procs : CompleteMaterials(p)
    \/ \E p \in Procs : CompleteTransaction(p)

SpecStock == InitOrder /\ [][NextStock]_vars

\* ------------------------------------- update_adc against a movement ----

\* database.py 188-196: the execute_insert of an add_spec of update_adc
\* raises (sqlite3.OperationalError); update_adc catches nothing, the call
\* ends there with the sample row updated and its spec-lots deleted
RewriteFailure(p) ==
    /\ pc[p] = "spec_line"
    /\ call[p].op = "update_adc"
    /\ result' = [result EXCEPT ![p] =
                     Returned("update_adc", "raise", "OperationalError", 0)]
    /\ pc' = [pc EXCEPT ![p] = "idle"]
    /\ UNCHANGED <<adcStore, cacheVars, call, pre>>
    /\ UNCHANGED orderVars

\* process 1 rewrites sample 1 while process 2 moves stock of it in and out
NextRewrite ==
    \/ \E lot \in Lots, specs \in CacheSpecLists : UpdateAdc(1, 1, lot, specs)
    \/ UpdateAdcLotCheck(1)
    \/ UpdateAdcUpdate(1)
    \/ UpdateAdcDeleteSpecs(1)
    \/ AddSpecLine(1)
    \/ RewriteFailure(1)
    \/ CrudReturn(1)
    \/ \E items \in CacheRequests : OutboundBegin(2, "LOT-001", items)
    \/ \E items \in CacheRequests : InboundBegin(2, "LOT-001", items)
    \/ OutboundSteps(2)
    \/ InboundSteps(2)

SpecRewrite == InitCached /\ [][NextRewrite]_vars

\* ------------------------------------------- two inbounds, one spec-lot ----

\* the requests of the racing inbounds: one line, for the spec-lot of 1.0 mg
\* in stock or for 2.0 mg
InboundRaceRequests ==
    {<<l>> : l \in {l \in Lines : l.spec_mg \in {10000, 20000}}}

\* create_inbound calls of both processes, interleaved statement by statement
NextInbound ==
    \/ \E p \in Procs, items \in InboundRaceRequests :
          InboundBegin(p, "LOT-001", items)
    \/ \E p \in Procs : InboundSteps(p)

SpecInbound == InitRace /\ [][NextInbound]_vars

\* ------------------------------------------------------------ claims ----

\* the quantity a request asks of specification value v, over all its lines
RECURSIVE QtyFor(_, _, _)
QtyFor(items, v, i) ==
    IF i > Len(items) THEN 0
    ELSE (IF items[i].spec_mg = v THEN items[i].quantity ELSE 0)
            + QtyFor(items, v, i + 1)

\* the rows are one line item per requested line
OneRowPerLine(rows, items) ==
    /\ Cardinality(rows) = Len(items)
    /\ \A l \in Lines :
          Cardinality({r \in rows : r.spec_mg = l.spec_mg /\ r.quantity = l.quantity})
            = Cardinality({i \in 1..Len(items) : items[i] = l})

\* the spec-lots of a sample a line of specification value v asks for: the
\* ones whose specification value is v up to the tolerance
LotsFor(specs, adc_id, v) ==
    {s \in specs : s.adc_id = adc_id /\ Abs(s.spec_mg - v) < Tolerance}

\* the first of them in the order of the specification value
FirstLot(S) ==
    CHOOSE s \in S : \A t \in S :
        s.spec_mg < t.spec_mg \/ (s.spec_mg = t.spec_mg /\ s.id <= t.id)

OutboundSucceeded(p) ==
    pc[p] = "idle" /\ result[p].op = "create_outbound" /\ result[p].status = "ok"

InboundSucceeded(p) ==
    pc[p] = "idle" /\ result[p].op = "create_inbound" /\ result[p].status = "ok"

\* C1: in every state reached by create_inbound and create_outbound calls from
\* a store of non-negative counts, every spec-lot's vial count is >= 0.
C1_CountNeverNegative ==
    \A s \in adc_specs : s.quantity >= 0

\* the request must fail validation against store b: the lot names no
\* sample, or some line's spec-lot is missing or holds fewer vials than the
\* line asks
OutboundMustFail(b, lot, items) ==
    LET samples == {r \in b.adc : r.lot_number = lot}
    IN \/ samples = {}
       \/ \E r \in samples, i \in 1..Len(items) :
             LET lots == LotsFor(b.adc_specs, r.id, items[i].spec_mg)
             IN lots = {} \/ FirstLot(lots).quantity < items[i].quantity

\* C2: a create_outbound that fails its validation pass (unknown lot, or any
\* one line whose spec-lot is missing or short) returns a failure and leaves
\* the store as it was: no header, no line item, every count unchanged.
\* A request that must fail never gets past the validation pass, and when the
\* call has returned its failure the store is the one the call found.
C2_FailedOutboundChangesNothing ==
    \A p \in Procs :
        /\ call[p].op = "create_outbound"
              => ~OutboundMustFail(pre[p], call[p].lot_number, call[p].items)
        /\ (pc[p] = "idle" /\ result[p].op = "create_outbound"
                /\ result[p].status = "fail")
              => Snapshot = pre[p]

\* a create_outbound has failed for want of stock while another spec-lot of
\* the store holds vials
C2_Witness ==
    /\ pc[1] = "idle"
    /\ result[1].op = "create_outbound"
    /\ result[1].status = "fail"
    /\ result[1].error = "InsufficientStock"
    /\ \E s \in adc_specs : s.quantity > 0
    /\ adc_inbound # {}

\* C3: whenever create_outbound returns success, exactly one header and one
\* line item per requested line have been created, and each requested
\* spec-lot's count has decreased by exactly the quantity requested for it.
C3_OutboundDecrementsExactly ==
    \A p \in Procs :
        OutboundSucceeded(p) =>
            LET c == call[p]
                b == pre[p]
                h == result[p].value
                rows == {r \in adc_outbound_items : r.outbound_id = h}
                asked(s) == {i \in 1..Len(c.items) :
                                LET lots == LotsFor(b.adc_specs, c.adc_id,
                                                    c.items[i].spec_mg)
                                IN lots # {} /\ FirstLot(lots) = s}
                askedQty(s) == SumQty({[line |-> i, quantity |-> c.items[i].quantity]
                                          : i \in asked(s)})
            IN /\ h \notin {r.id : r \in b.adc_outbound}
               /\ adc_outbound = b.adc_outbound \cup
                                    {[created_at |-> now, id |-> h,
                                      lot_number |-> c.lot_number]}
               /\ adc_outbound_items = b.adc_outbound_items \cup rows
               /\ OneRowPerLine(rows, c.items)
               /\ \A s \in b.adc_specs :
                     \E t \in adc_specs :
                        /\ t.id = s.id
                        /\ t.quantity = s.quantity - askedQty(s)

\* vials taken out of the contended spec-lot since the race began
Removed(s) == RaceStock - s.quantity

\* C4: under every interleaving of create_outbound calls of two processes with
\* private caches on one spec-lot, the vials actually removed never exceed the
\* count that was in stock, and the count is never negative.
C4_RaceNeverOverdraws ==
    \A s \in adc_specs :
        /\ s.quantity >= 0
        /\ Removed(s) <= RaceStock

\* both processes validated a line against the same stock and both have
\* returned success, yet only one decrement was applied
C4_Witness ==
    /\ OutboundSucceeded(1)
    /\ OutboundSucceeded(2)
    /\ pre[1].adc_specs = pre[2].adc_specs
    /\ \E s \in pre[1].adc_specs : s.id = 1 /\ s.quantity = RaceStock
    /\ Cardinality({r \in adc_outbound_items : r.quantity > 0}) = 2
    /\ SumQty({r \in adc_outbound_items : r.quantity > 0}) > RaceStock
    /\ \E s \in adc_specs : s.id = 1 /\ s.quantity < RaceStock

MutatingOps ==
    {"create_adc", "update_adc", "delete_adc", "add_spec", "update_spec",
     "update_spec_quantity", "delete_spec", "create_inbound", "create_outbound"}

\* the last mutating call of the process returned success (a failed call
\* leaves no frame)
LastMutationSucceeded(p) ==
    pc[p] = "idle" /\ call[p].op \in MutatingOps

\* the ADC object is the stored sample r with its current spec-lots, each once
IsSample(a, r) ==
    LET lots == {s \in adc_specs : s.adc_id = r.id}
    IN /\ a.id = r.id
       /\ a.lot_number = r.lot_number
       /\ Len(a.specs) = Cardinality(lots)
       /\ {a.specs[j] : j \in 1..Len(a.specs)} = lots

\* the list holds every stored sample exactly once, and nothing else
ListIsStore(list) ==
    /\ Len(list) = Cardinality(adc)
    /\ \A r \in adc : \E k \in 1..Len(list) : IsSample(list[k], r)

\* C6: after a mutating ADCController call has returned success, with no
\* other writer, get_all_adcs returns every stored sample exactly once with
\* its current spec-lot counts, and get_adc returns the stored sample of the
\* id, or None for an id the store does not hold.
C6_ReadsFollowTheStore ==
    \A p \in Procs :
        LastMutationSucceeded(p) =>
            /\ result[p].op = "get_all_adcs" => ListIsStore(result[p].value)
            /\ result[p].op = "get_adc" =>
                  LET stored == {r \in adc : r.id = result[p].id}
                  IN IF stored = {} THEN result[p].value = NoAdc
                     ELSE \A r \in stored : IsSample(result[p].value, r)

\* a sample with a spec-lot was deleted, and the read after it lists the one
\* sample that is left
C6_Witness ==
    /\ LastMutationSucceeded(1)
    /\ call[1].op = "delete_adc"
    /\ \E s \in pre[1].adc_specs : s.adc_id = call[1].adc_id
    /\ Cardinality(pre[1].adc) = 2
    /\ result[1].op = "get_all_adcs"
    /\ Len(result[1].value) = 1

\* C5: once the lot resolves, create_inbound succeeds; for every requested
\* specification value the spec-lot that existed has grown by exactly the
\* quantity of its lines, or else one new spec-lot holds exactly that
\* quantity; one header and one line item per line are recorded.
C5_InboundAddsExactly ==
    \A p \in Procs :
        /\ (result[p].op = "create_inbound" /\ result[p].status # "ok")
              => /\ result[p].status = "fail"
                 /\ result[p].error = "LotNotFound"
                 /\ result[p].lot \notin {r.lot_number : r \in adc}
        /\ InboundSucceeded(p) =>
              LET c == call[p]
                  b == pre[p]
                  h == result[p].value
                  rows == {r \in adc_inbound_items : r.inbound_id = h}
              IN /\ h \notin {r.id : r \in b.adc_inbound}
                 /\ adc_inbound = b.adc_inbound \cup
                                     {[created_at |-> now, id |-> h,
                                      lot_number |-> c.lot_number]}
                 /\ adc_inbound_items = b.adc_inbound_items \cup rows
                 /\ OneRowPerLine(rows, c.items)
                 /\ {s.id : s \in b.adc_specs} \subseteq {t.id : t \in adc_specs}
                 /\ \A t \in adc_specs :
                       LET old == {s \in b.adc_specs : s.id = t.id}
                           had == {s \in b.adc_specs :
                                     s.adc_id = t.adc_id /\ s.spec_mg = t.spec_mg}
                           q == QtyFor(c.items, t.spec_mg, 1)
                       IN IF old # {}
                          THEN \A s \in old :
                                  /\ t.adc_id = s.adc_id /\ t.spec_mg = s.spec_mg
                                  /\ t.quantity = s.quantity +
                                        (IF t.adc_id = c.adc_id THEN q ELSE 0)
                          ELSE /\ had = {}
                               /\ t.adc_id = c.adc_id
                               /\ t.quantity = q
                               /\ \E i \in 1..Len(c.items) :
                                     c.items[i].spec_mg = t.spec_mg
                               /\ \A u \in adc_specs :
                                     (u.adc_id = t.adc_id /\ u.spec_mg = t.spec_mg)
                                        => u = t
                 /\ \A i \in 1..Len(c.items) :
                       \E t \in adc_specs :
                          t.adc_id = c.adc_id /\ t.spec_mg = c.items[i].spec_mg

\* an inbound of two lines has returned: one grew a spec-lot that existed,
\* the other created a spec-lot
C5_Witness ==
    /\ InboundSucceeded(1)
    /\ Len(call[1].items) = 2
    /\ \E i, j \in 1..2 :
          /\ \E s \in pre[1].adc_specs : s.spec_mg = call[1].items[i].spec_mg
          /\ \A s \in pre[1].adc_specs : s.spec_mg # call[1].items[j].spec_mg


\* complete_order has ended, by a return or by an exception
CompleteEnded(p) ==
    pc[p] = "idle" /\ result[p].op = "complete_order"

\* the line items of the order in store b
LinesOf(b, oid) ==
    {l \in b.order_materials : l.order_id = oid}

\* those of them that ask more than their material holds in store b
ShortLines(b, oid) ==
    {l \in LinesOf(b, oid) :
        \E m \in b.materials : m.id = l.material_id /\ m.quantity < l.quantity}

\* the order is in store b and neither completed nor cancelled there
IsOpen(b, oid) ==
    \E o \in b.orders : o.id = oid /\ o.status \in {"pending", "in_progress"}

\* orders, materials and movement history are those of store b
OrderTablesAre(b) ==
    /\ orders = b.orders
    /\ order_materials = b.order_materials
    /\ materials = b.materials
    /\ stock_movements = b.stock_movements

\* C7: complete_order on an order with at least one line item whose material
\* holds less than the line asks does not succeed and changes nothing: the
\* order's status and completed_at, every material quantity and the
\* stock_movements table are as before the call.
C7_ShortOrderChangesNothing ==
    \A p \in Procs :
        (CompleteEnded(p) /\ ShortLines(pre[p], result[p].id) # {}) =>
            /\ result[p].status # "ok"
            /\ OrderTablesAre(pre[p])

\* complete_order has ended on a pending order of two lines, one covered by
\* its material's stock and one short
C7_Witness ==
    /\ CompleteEnded(1)
    /\ \E o \in pre[1].orders : o.id = result[1].id /\ o.status = "pending"
    /\ Cardinality(LinesOf(pre[1], result[1].id)) = 2
    /\ Cardinality(ShortLines(pre[1], result[1].id)) = 1

\* C8: complete_order on an existing order in status pending or in_progress
\* whose every line item is covered by current stock succeeds, and the order
\* is completed with completed_at set, each line's material is decreased by
\* the line's quantity, and one 'out' movement per line references the order.
C8_CoveredOrderCompletes ==
    \A p \in Procs :
        LET b == pre[p]
            oid == result[p].id
            lines == LinesOf(b, oid)
            added == stock_movements \ b.stock_movements
        IN (CompleteEnded(p) /\ IsOpen(b, oid) /\ ShortLines(b, oid) = {}) =>
              /\ result[p].status = "ok"
              /\ \A o \in orders :
                    o.id = oid => o.status = "completed" /\ o.completed_at # Null
              /\ \A m \in b.materials :
                    \E n \in materials :
                       /\ n.id = m.id
                       /\ n.quantity = m.quantity -
                             SumQty({l \in lines : l.material_id = m.id})
              /\ b.stock_movements \subseteq stock_movements
              /\ Cardinality(added) = Cardinality(lines)
              /\ \A r \in added :
                    r.movement_type = "out" /\ r.reference_id = oid
              /\ \A l \in lines :
                    \E r \in added :
                       r.material_id = l.material_id /\ r.quantity = l.quantity

\* C9: when several line items of an order are short of stock, the error
\* complete_order returns names every insufficient material.
C9_ErrorNamesEveryShortMaterial ==
    \A p \in Procs :
        LET short == ShortLines(pre[p], result[p].id)
        IN (CompleteEnded(p) /\ IsOpen(pre[p], result[p].id)
                /\ Cardinality(short) >= 2) =>
              /\ result[p].status = "fail"
              /\ result[p].error = "InsufficientStock"
              /\ result[p].value = {l.material_id : l \in short}

\* C10: complete_order on an order that does not exist, or that is completed
\* or cancelled, is rejected with the error of that case and of no other, and
\* leaves the order, all material quantities and the movement history as
\* they were.
C10_TerminalOrderRejected ==
    \A p \in Procs :
        CompleteEnded(p) =>
            LET b == pre[p]
                found == {o \in b.orders : o.id = result[p].id}
                case == IF found = {} THEN "OrderNotFound"
                        ELSE IF \E o \in found : o.status = "completed"
                             THEN "OrderCompleted"
                        ELSE IF \E o \in found : o.status = "cancelled"
                             THEN "OrderCancelled"
                        ELSE "none"
            IN /\ case # "none" =>
                    /\ result[p].status = "fail"
                    /\ result[p].error = case
                    /\ OrderTablesAre(b)
               /\ result[p].error \in {"OrderNotFound", "OrderCompleted",
                                       "OrderCancelled"}
                     => result[p].error = case

\* complete_order was refused on a cancelled order that holds a line its
\* material covers
C10_Witness ==
    /\ CompleteEnded(1)
    /\ result[1].error = "OrderCancelled"
    /\ \E o \in orders : o.id = result[1].id /\ o.status = "cancelled"
    /\ LinesOf(pre[1], result[1].id) # {}
    /\ ShortLines(pre[1], result[1].id) = {}

\* C11: once an order's status is completed, no later complete_order,
\* cancel_order or update_order changes its status again, and its
\* completed_at, written when it was completed, is never written again.
C11_CompletedIsTerminal ==
    [][\A o \in orders :
          o.status = "completed" =>
             \E n \in orders' :
                /\ n.id = o.id
                /\ n.status = "completed"
                /\ n.completed_at = o.completed_at]_vars

\* the thread is inside complete_order, between the first read of the
\* precondition check and the return of execute_transaction
InCompletion(p) ==
    pc[p] \in {"co_status", "co_materials", "co_transaction"}

\* C12: the precondition check of complete_order and its transaction
\* submission are one critical section that serializes the completions of a
\* process: no two threads are inside it at once, so no two completions pass
\* the stock check against the same stock and both decrement it.
C12_CompletionIsOneCriticalSection ==
    \A p \in Procs, q \in Procs :
        p # q => ~(InCompletion(p) /\ InCompletion(q))

\* what material mid has received less what it holds: the quantity taken
\* from it since it was created
Deducted(mid) ==
    SumQty({r \in stock_movements :
               r.material_id = mid /\ r.movement_type = "in"})
    - SumQty({m \in materials : m.id = mid})

RECURSIVE RunAll(_, _, _)
RunAll(conn, ops, i) ==
    IF i > Len(ops) THEN [conn |-> conn, ok |-> TRUE]
    ELSE LET r == Execute(conn, ops[i])
         IN IF r.ok THEN RunAll(r.conn, ops, i + 1)
            ELSE [conn |-> conn, ok |-> FALSE]

\* the rows of the transaction's tables in store b
ConnectionOf(b) ==
    [materials |-> b.materials, orders |-> b.orders, seq |-> b.seq,
     stock_movements |-> b.stock_movements]

\* C14: execute_transaction is all-or-nothing.  While it runs, the store
\* any reader sees is the store the call began on; when it returns success
\* no statement failed and the store holds the effect of every statement;
\* when it fails the store is the one the call began on.
C14_TransactionAllOrNothing ==
    \A p \in Procs :
        /\ pc[p] = "tx_execute" => Connection = ConnectionOf(pre[p])
        /\ (pc[p] = "idle" /\ result[p].op = "execute_transaction") =>
              LET all == RunAll(ConnectionOf(pre[p]), call[p].items, 1)
              IN IF result[p].status = "ok"
                 THEN all.ok /\ Connection = all.conn
                 ELSE ~all.ok /\ Connection = ConnectionOf(pre[p])

\* a transaction of five statements ran its first four on the connection
\* and failed on the fifth
C14_Witness ==
    /\ pc[1] = "idle"
    /\ result[1].op = "execute_transaction"
    /\ result[1].status = "raise"
    /\ Len(call[1].items) = 5
    /\ call[1].i = 5
    /\ call[1].conn # ConnectionOf(pre[1])

\* update_material has ended, by a return or by an exception
UpdateEnded(p) ==
    pc[p] = "idle" /\ result[p].op = "update_material"

\* the materials row of the given id in store b
RowOf(b, id) ==
    {m \in b.materials : m.id = id}

\* the call carried a version token, and the row it names was in the store
\* at call entry with another version than the token: the token is stale
StaleToken(p) ==
    /\ call[p].expected_version # Null
    /\ \E m \in RowOf(pre[p], call[p].id) :
          m.updated_at # call[p].expected_version

\* the call carried the version the row had at call entry
FreshToken(p) ==
    \E m \in RowOf(pre[p], call[p].id) :
       m.updated_at = call[p].expected_version

\* C15: of two update_material calls that carry the version token of the
\* same read, the first, whose token is the row's version, succeeds and
\* writes its values; the second, whose token is stale by then, fails with
\* the version-conflict error and leaves the first writer's values in the row.
C15_FirstWriterWins ==
    \A p \in Procs :
        UpdateEnded(p) =>
            /\ FreshToken(p) =>
                  /\ result[p].status = "ok"
                  /\ \A m \in RowOf(Snapshot, call[p].id) :
                        m.quantity = call[p].quantity
            /\ StaleToken(p) =>
                  /\ result[p].status = "fail"
                  /\ result[p].error = "VersionConflict"
                  /\ materials = pre[p].materials

\* C16: an update_material call whose version token is older than the row's
\* committed version is rejected, and the committed row is not overwritten.
C16_StaleUpdateRejected ==
    \A p \in Procs :
        (UpdateEnded(p) /\ StaleToken(p)) =>
            /\ result[p].status = "fail"
            /\ RowOf(Snapshot, call[p].id) = RowOf(pre[p], call[p].id)

\* C17: update_material tells its two failures apart: an id with no row
\* gives the not-found error, a stale token on an existing row gives the
\* version-conflict error; either way the materials rows are unchanged and
\* no stock movement is appended.
C17_NotFoundAndConflictDistinct ==
    \A p \in Procs :
        (UpdateEnded(p) /\ call[p].id # 0) =>
            /\ RowOf(pre[p], call[p].id) = {} =>
                  /\ result[p].status = "fail"
                  /\ result[p].error = "NotFound"
            /\ StaleToken(p) =>
                  /\ result[p].status = "fail"
                  /\ result[p].error = "VersionConflict"
            /\ (RowOf(pre[p], call[p].id) = {} \/ StaleToken(p)) =>
                  /\ materials = pre[p].materials
                  /\ stock_movements = pre[p].stock_movements

\* the quantities of the movements of one kind recorded for material mid
Moved(mid, kind) ==
    SumQty({r \in stock_movements :
               r.material_id = mid /\ r.movement_type = kind})

\* C18: in every reachable state each material's quantity is the sum of its
\* 'in' movements less the sum of its 'out' movements: no operation, and no
\* stop between the steps of one operation, changes a quantity without the
\* matching stock_movements row.
C18_QuantityMatchesMovements ==
    \A m \in materials :
        m.quantity = Moved(m.id, "in") - Moved(m.id, "out")

\* no two rows of adc have the same lot number
LotsUnique ==
    \A a \in adc, b \in adc : a.lot_number = b.lot_number => a.id = b.id

\* the step is the one in which create_adc or update_adc of process p ends
\* on a lot number in use
LotRefused(p) ==
    /\ result'[p] # result[p] \/ pre'[p] # pre[p] \/ pc'[p] # pc[p]
    /\ pc'[p] = "idle"
    /\ result'[p].op \in {"create_adc", "update_adc"}
    /\ result'[p].error \in {"IntegrityError", "LotInUse"}

\* C19: no two samples ever share a lot number; create_adc with a lot number
\* in use, and update_adc changing a sample's lot number to that of another
\* sample, fail and leave every sample and spec-lot as it was.
C19_LotNumbersUnique ==
    /\ []LotsUnique
    /\ [][\A p \in Procs :
             LotRefused(p) => /\ result'[p].status # "ok"
                              /\ adc' = adc
                              /\ adc_specs' = adc_specs]_vars

\* an update_adc passed its lot check, another process then took the lot
\* number with create_adc, and the UPDATE was refused by the store
C19_Witness ==
    /\ pc[1] = "idle"
    /\ result[1].op = "update_adc"
    /\ result[1].error = "IntegrityError"
    /\ Cardinality(adc) = 2
    /\ pre[1].adc # adc

\* C20: in every reachable state there is at most one spec-lot per sample
\* and specification value, so get_spec_by_adc_and_mg names a single row,
\* whatever sequence of create_adc, update_adc, add_spec, update_spec and
\* create_inbound ran.
C20_OneSpecLotPerValue ==
    \A s \in adc_specs, t \in adc_specs :
        (s.adc_id = t.adc_id /\ s.spec_mg = t.spec_mg) => s.id = t.id

\* C21: an inbound or outbound request with a line of negative quantity is
\* rejected and changes neither stock nor movement history: no create_inbound
\* or create_outbound call gets past its checks, to its first write, with
\* such a line.
C21_NegativeLineRejected ==
    \A p \in Procs :
        call[p].op \in {"create_inbound", "create_outbound"} =>
            \A i \in 1..Len(call[p].items) : call[p].items[i].quantity >= 0

\* C22: complete_order, update_material, create_inbound and create_outbound
\* report an unknown order, material or sample, a want of stock and a stale
\* version token as returned errors, and no call of theirs, on an existing
\* valid entity either, ends with a raised exception.
C22_FailuresAreReturned ==
    \A p \in Procs :
        result[p].op \in {"complete_order", "update_material",
                          "create_inbound", "create_outbound"}
           => result[p].status # "raise"

\* C23: when a store failure ends create_outbound or create_inbound after its
\* header row was committed, the line items recorded under that header and the
\* changes of the spec-lot counts agree: no item without its count change, no
\* count change without its item.
Interrupted(p) ==
    /\ pc[p] = "idle"
    /\ result[p].status = "raise"
    /\ call[p].op \in {"create_inbound", "create_outbound"}
    /\ call[p].header_id # 0

ItemsUnder(p) ==
    IF call[p].op = "create_outbound"
    THEN {r \in adc_outbound_items : r.outbound_id = call[p].header_id}
    ELSE {r \in adc_inbound_items : r.inbound_id = call[p].header_id}

CountChange(p) ==
    IF call[p].op = "create_outbound"
    THEN SumQty(pre[p].adc_specs) - SumQty(adc_specs)
    ELSE SumQty(adc_specs) - SumQty(pre[p].adc_specs)

C23_InterruptedMovementConsistent ==
    \A p \in Procs : Interrupted(p) => SumQty(ItemsUnder(p)) = CountChange(p)

\* C24: deleting a parent row removes exactly its dependent rows: a step that
\* deletes a sample removes its spec-lots and leaves every inbound and outbound
\* record and line item, those naming its lot number too; a step that deletes a
\* material removes its stock movements and order lines and nothing else; and
\* in every state each dependent row has its parent.
Ids(rows) == {r.id : r \in rows}

NoOrphans ==
    /\ \A s \in adc_specs : s.adc_id \in Ids(adc)
    /\ \A r \in adc_outbound_items : r.outbound_id \in Ids(adc_outbound)
    /\ \A r \in adc_inbound_items : r.inbound_id \in Ids(adc_inbound)
    /\ \A r \in order_materials :
          r.order_id \in Ids(orders) /\ r.material_id \in Ids(materials)
    /\ \A r \in stock_movements : r.material_id \in Ids(materials)

SampleDeleted ==
    LET gone == Ids(adc) \ Ids(adc')
    IN gone # {} =>
          /\ adc' = {r \in adc : r.id \notin gone}
          /\ adc_specs' = {s \in adc_specs : s.adc_id \notin gone}
          /\ UNCHANGED <<adc_outbound, adc_outbound_items, adc_inbound,
                         adc_inbound_items, orderTables>>

MaterialDeleted ==
    LET gone == Ids(materials) \ Ids(materials')
    IN gone # {} =>
          /\ materials' = {m \in materials : m.id \notin gone}
          /\ stock_movements' =
                {r \in stock_movements : r.material_id \notin gone}
          /\ order_materials' =
                {r \in order_materials : r.material_id \notin gone}
          /\ UNCHANGED <<orders, adcTables>>

C24_DeleteCascadesExactly ==
    []NoOrphans /\ [][SampleDeleted /\ MaterialDeleted]_vars

\* a sample was deleted with its spec-lots while an inbound record and its
\* item, naming its lot number, stay; a material with a movement and an order
\* line is gone
C24_Witness ==
    /\ adc = {}
    /\ \E h \in adc_inbound :
          /\ h.lot_number = "LOT-001"
          /\ \E r \in adc_inbound_items : r.inbound_id = h.id
    /\ pc[2] = "idle"
    /\ result[2].op = "delete_material"
    /\ result[2].status = "ok"
    /\ \E r \in pre[2].order_materials : r.material_id = call[2].id
    /\ \E r \in pre[2].stock_movements : r.material_id = call[2].id
    /\ adc_specs = {}
    /\ seq["adc_specs"] > 0

\* C25: init_database is idempotent and non-destructive: on a store of any
\* layout, running it again changes nothing that running it once has not
\* changed, and no run of it drops a table or removes a row.
TableKept(t) ==
    t \in schema.tables =>
        /\ t \in schema'.tables
        /\ schema'.rows[t] >= schema.rows[t]
        /\ schema.columns[t] \subseteq schema'.columns[t]

C25_InitIdempotentNonDestructive ==
    /\ [](init_database(init_database(schema)) = init_database(schema))
    /\ [][\A t \in SchemaTables : TableKept(t)]_vars

\* C26: once the window has switched to a store file, schema initialization
\* has run on that file, and the controller's cache holds nothing loaded from
\* the file it left: between calls its list and its dict are those of the open
\* file, and get_all_adcs and get_adc return samples of the open file only.
FromOpenFile(object) ==
    \E r \in adc : object = ADCObject(r)

Connecting(p) == call[p].op = "get_connection"

ConnectionEnded(p) ==
    Connecting(p) /\ pc[p] = "idle"

C27_ConnectionRetriesBounded ==
    \A p \in Procs :
        Connecting(p) =>
            LET tried == call[p].outcomes
                n == Len(tried)
            IN /\ n <= 3
               /\ \A k \in 1..(n - 1) : tried[k] = "locked"
               /\ Len(call[p].waits) \in {n - 1, n}
               /\ \A k \in 1..Len(call[p].waits) :
                     /\ call[p].waits[k] = retry_delay * k
                     /\ tried[k] = "locked"
                     /\ k \in {1, 2}
               /\ pc[p] = "gc_sleep" <=>
                     (n \in {1, 2} /\ tried[n] = "locked"
                         /\ Len(call[p].waits) = n - 1)
               /\ ConnectionEnded(p) =>
                     /\ tried[n] = "connected" =>
                           result[p].status = "ok" /\ result[p].value # Null
                     /\ tried[n] # "connected" =>
                           /\ result[p].status = "raise"
                           /\ result[p].error = tried[n]
                           /\ tried[n] = "locked" => n = 3
                     /\ Len(call[p].waits) = n - 1

\* the store was locked three times running: two waits, of retry_delay and of
\* twice retry_delay, and the third failure is raised
C27_Witness ==
    /\ ConnectionEnded(1)
    /\ call[1].outcomes = <<"locked", "locked", "locked">>
    /\ call[1].waits = <<retry_delay, 2 * retry_delay>>
    /\ result[1].status = "raise"

\* C28: an update_material call on a stored material, its token not stale,
\* succeeds, and has appended one stock movement if the new quantity differs
\* from the one it replaced ('in' if it rose, 'out' if it fell, of the
\* absolute difference) and none if the quantity is the same.
C28_UpdateRecordsTheDifference ==
    \A p \in Procs :
        (UpdateEnded(p) /\ ~StaleToken(p)) =>
            \A m \in RowOf(pre[p], call[p].id) :
                LET diff == call[p].quantity - m.quantity
                    new == stock_movements \ pre[p].stock_movements
                IN /\ result[p].status = "ok"
                   /\ pre[p].stock_movements \subseteq stock_movements
                   /\ IF diff = 0 THEN new = {}
                      ELSE \E r \in new :
                              /\ new = {r}
                              /\ r.material_id = m.id
                              /\ r.movement_type =
                                    (IF diff > 0 THEN "in" ELSE "out")
                              /\ r.quantity = Abs(diff)

\* C29: the version token is the row's modification timestamp and no finer:
\* a write made while the clock has not advanced since the row's last write
\* leaves the token as it was, and the versioned UPDATE accepts a writer
\* exactly when the token it holds is the row's, whether or not the row was
\* written since the writer read it.
VersionedUpdateEnded(p) ==
    pc[p] = "idle" /\ result[p].op = "update_material_with_version"

TokenKeptWithinTick ==
    \A m \in materials, n \in materials' :
        (m.id = n.id /\ m.updated_at = now /\ now' = now)
           => n.updated_at = m.updated_at

C29_TokenHasClockResolution ==
    /\ [](\A p \in Procs :
             VersionedUpdateEnded(p) =>
                 (result[p].status = "ok" <=>
                     \E m \in RowOf(pre[p], call[p].id) :
                        m.updated_at = call[p].held.version))
    /\ [][TokenKeptWithinTick]_vars

\* writer 2 read the row, the row was then given another quantity within the
\* same tick, and writer 2's update, with the token of its read, was accepted
C29_Witness ==
    /\ VersionedUpdateEnded(2)
    /\ result[2].status = "ok"
    /\ \E m \in RowOf(pre[2], call[2].id) :
          /\ m.quantity # call[2].held.quantity
          /\ m.updated_at = call[2].held.version

\* C30: get_adc, get_all_adcs and the searches are served from the
\* controller's cache: a read on a controller whose flag is unset loads the
\* cache from the store and sets the flag; a read with the flag set leaves
\* the cache as it is and returns what the cache held, whatever the store
\* holds by then; no read writes to the store.
ReadOps == {"get_adc", "get_all_adcs", "search_by_sample_id"}

\* the step is a read of process p
ReadStep(p) ==
    /\ pc[p] = "idle"
    /\ pc'[p] = "idle"
    /\ result'[p].op \in ReadOps
    /\ \/ result'[p] # result[p]
       \/ cache_initialized'[p] # cache_initialized[p]
       \/ all_adcs_cache'[p] # all_adcs_cache[p]

ServedFrom(p, list, dict) ==
    /\ all_adcs_cache'[p] = list
    /\ adc_cache'[p] = dict
    /\ result'[p].op = "get_all_adcs" => result'[p].value = list
    /\ result'[p].op = "get_adc" =>
          result'[p].value = (IF result'[p].id \in DOMAIN dict
                              THEN dict[result'[p].id] ELSE NoAdc)
    /\ result'[p].op = "search_by_sample_id" =>
          \A k \in 1..Len(result'[p].value) :
             \E j \in 1..Len(list) : result'[p].value[k] = list[j]

C30_ReadsServedFromCache ==
    [][\A p \in Procs :
          ReadStep(p) =>
             /\ cache_initialized'[p]
             /\ UNCHANGED adcStore
             /\ IF cache_initialized[p]
                THEN ServedFrom(p, all_adcs_cache[p], adc_cache[p])
                ELSE ServedFrom(p, RefreshedList, RefreshedDict)]_vars

\* controller 2 deleted a sample that controller 1 had in its cache, and a
\* search of controller 1, begun after that, returned the deleted sample
C30_Witness ==
    /\ cache_initialized[1]
    /\ pc[1] = "idle"
    /\ result[1].op = "search_by_sample_id"
    /\ \E k \in 1..Len(result[1].value) :
          /\ result[1].value[k].id \notin {r.id : r \in pre[1].adc}
          /\ result[1].value[k] = all_adcs_cache[1][k]

\* the text holds the searched text as a run of consecutive characters
Contains(text, searched) ==
    \E k \in 0..(Len(text) - Len(searched)) :
       SubSeq(text, k + 1, k + Len(searched)) = searched

\* the list holds each of the rows exactly once under the tag, and nothing
\* else under it
EachOnce(list, rows, type) ==
    /\ \A r \in rows :
          Cardinality({i \in 1..Len(list) :
                          list[i] = Tagged(r, type)}) = 1
    /\ \A i \in 1..Len(list) :
          list[i].type = type => \E r \in rows : list[i] = Tagged(r, type)

\* the list is the merged view of the two sets of records, newest first
MergedView(list, outbounds, inbounds) ==
    /\ EachOnce(list, outbounds, "outbound")
    /\ EachOnce(list, inbounds, "inbound")
    /\ \A i \in 1..Len(list) : list[i].type \in {"outbound", "inbound"}
    /\ \A i \in 1..(Len(list) - 1) :
          list[i].created_at >= list[i + 1].created_at

\* C31: get_all_movements returns every inbound and every outbound record
\* exactly once, tagged with its kind, newest first, and
\* search_movements_by_lot_number returns that view of the records whose lot
\* number contains the searched text
C31_MovementHistoryView ==
    /\ result[1].op = "get_all_movements" =>
          MergedView(result[1].value, pre[1].adc_outbound, pre[1].adc_inbound)
    /\ result[1].op = "search_movements_by_lot_number" =>
          MergedView(result[1].value,
                     {r \in pre[1].adc_outbound :
                         Contains(Spelling(r.lot_number), call[1].items)},
                     {r \in pre[1].adc_inbound :
                         Contains(Spelling(r.lot_number), call[1].items)})

\* the number of INSERT statements of a statement list
RECURSIVE Inserts(_)
Inserts(statements) ==
    IF statements = <<>> THEN 0
    ELSE (IF Head(statements) = "insert" THEN 1 ELSE 0)
            + Inserts(Tail(statements))

\* thread p, inside with_connection with its connection, leaves the call
\* in this step
WithConnectionEnds(p) ==
    /\ call[p].op = "with_connection"
    /\ pc[p] = "gw_run"
    /\ pc'[p] = "idle"

HoldingLock ==
    {p \in Procs : /\ call[p].op = "execute_transaction"
                   /\ pc[p] \in {"gw_connect", "gw_sleep", "gw_run"}}

\* the lock is held by the one thread inside, and free when there is none
LockedByTheThreadInside ==
    /\ Cardinality(HoldingLock) <= 1
    /\ \A p \in Procs : lock = p <=> p \in HoldingLock
    /\ HoldingLock = {} <=> lock = 0

C38_NoConnectionLeftOpen ==
    \A p \in Procs : pc[p] = "idle" => connections[p] = 0

\* a call of remove_database by thread p ends in this step
RemoveDatabaseEnds(p) ==
    /\ result'[p].op = "remove_database"
    /\ <<config, result>>' # <<config, result>>

\* C39: remove_database never removes the last entry of the list and keeps
\* the current index within the list, and removing an entry other than the
\* current one leaves the current selection at the same store path.
C39_RemoveKeepsSelection ==
    /\ [](/\ Len(config.databases) >= 1
          /\ config.current_database \in 0 .. Len(config.databases) - 1)
    /\ [][\A p \in Procs :
            RemoveDatabaseEnds(p) /\ config' # config
                /\ result'[p].id # config.current_database
            => get_current_database_path(config')
                   = get_current_database_path(config)]_vars

\* the vials table specs holds of sample adc_id at specification spec_mg
CountOf(specs, adc_id, spec_mg) ==
    SumQty({s \in specs : s.adc_id = adc_id /\ s.spec_mg = spec_mg})

\* the vials of the line items a table has gained since the call began
Recorded(items, before, spec_mg) ==
    SumQty({i \in items \ before : i.spec_mg = spec_mg})

\* C33: the ledger is conserved: every spec-lot's count is its starting
\* count plus the recorded inbound line items minus the recorded outbound
\* line items of its lot and specification; no outbound line item is
\* recorded whose decrement was not applied.  Stated call by call: when a
\* create_outbound or create_inbound has returned success, each count of the
\* sample differs from the count the call found by exactly the line items
\* the call recorded.
C33_LedgerConserved ==
    \A p \in Procs :
        /\ pc[p] = "idle"
        /\ result[p].op \in {"create_outbound", "create_inbound"}
        /\ result[p].status = "ok"
        => \A a \in adc, spec_mg \in SpecValues :
              CountOf(adc_specs, a.id, spec_mg)
                  = CountOf(pre[p].adc_specs, a.id, spec_mg)
                    + Recorded(adc_inbound_items, pre[p].adc_inbound_items,
                               spec_mg)
                    - Recorded(adc_outbound_items, pre[p].adc_outbound_items,
                               spec_mg)

SpecLotsOf(specs, id) == {s \in specs : s.adc_id = id}

\* the store holds sample id as the update_adc call of p found it
OldSample(p, id) ==
    /\ {r \in adc : r.id = id} = {r \in pre[p].adc : r.id = id}
    /\ SpecLotsOf(adc_specs, id) = SpecLotsOf(pre[p].adc_specs, id)

\* the store holds sample id as the call of p was asked to make it: the lot
\* number supplied, and exactly the supplied spec-lots
NewSample(p, id) ==
    /\ \A r \in adc : r.id = id => r.lot_number = call[p].lot_number
    /\ LET rows == OrderLinesById(SpecLotsOf(adc_specs, id))
       IN /\ Len(rows) = Len(call[p].items)
          /\ \A i \in 1..Len(rows) :
                /\ rows[i].spec_mg = call[p].items[i].spec_mg
                /\ rows[i].quantity = call[p].items[i].quantity

\* the update_adc call of p deletes the spec-lots of its sample in this step
Rewrites(p) ==
    /\ pc[p] = "ua_delete_specs"
    /\ pc'[p] # "ua_delete_specs"

\* C35: update_adc is all-or-nothing: when the call has ended, returned or
\* failed part-way, the store holds the complete old sample with its old
\* spec-lots or the complete new sample with exactly the supplied spec-lots;
\* and the rewrite undoes no stock change of a concurrent movement: the
\* spec-lots it deletes are the ones the call found.
C35_UpdateAllOrNothing ==
    /\ [](\A p \in Procs :
             pc[p] = "idle" /\ result[p].op = "update_adc" /\ call[p].adc_id # 0
             => OldSample(p, call[p].adc_id) \/ NewSample(p, call[p].adc_id))
    /\ [][\A p \in Procs :
            Rewrites(p) =>
                SpecLotsOf(adc_specs, call[p].adc_id)
                    = SpecLotsOf(pre[p].adc_specs, call[p].adc_id)]_vars

\* the vials the recorded inbound line items add at specification spec_mg
Received(spec_mg) ==
    SumQty({i \in adc_inbound_items : i.spec_mg = spec_mg})

\* C36: concurrent inbound increments are never lost: however two
\* create_inbound calls adding q1 and q2 vials to one existing spec-lot
\* interleave, once both have ended the count is the starting count plus
\* q1 + q2.
C36_InboundIncrementsNotLost ==
    (\A p \in Procs : pc[p] = "idle") =>
        \A s \in adc_specs :
            s.id = 1 => s.quantity = RaceStock + Received(s.spec_mg)

\* both calls have returned success on the spec-lot in stock, and their
\* statements were interleaved: the header written first had its line item
\* written last
C36_Witness ==
    /\ \A p \in Procs :
          /\ pc[p] = "idle"
          /\ result[p].op = "create_inbound"
          /\ result[p].status = "ok"
    /\ \E a, b \in adc_inbound_items :
          /\ a.spec_mg = 10000 /\ b.spec_mg = 10000
          /\ a.id < b.id
          /\ a.inbound_id > b.inbound_id
          /\ a.quantity = 2 /\ b.quantity = 2
    /\ \E s \in adc_specs : s.id = 1 /\ s.quantity = RaceStock + 4

=============================================================================
